---- MODULE Spec2Model ----
(***************************************************************************)
(* Model of the telemetry accumulator of the APM AWS Lambda extension:     *)
(* accumulator.Batch (src/accumulator/batch.go) with its invocation        *)
(* registry, event buffer, proxy-transaction and cold-start synthesis.     *)
(*                                                                         *)
(* Byte strings are sequences of tokens.  A token is either the newline    *)
(* byte NL or one event: a non-empty, newline-free JSON object, kept as a  *)
(* record of the fields the code reads or writes.  Lengths are counted in  *)
(* tokens; the code only compares lengths with zero and truncates the      *)
(* buffer at a length it measured itself.                                  *)
(***************************************************************************)
EXTENDS Integers, Sequences, FiniteSets, TLC

(***************************************************************************)
(* Bounds of the model.                                                    *)
(***************************************************************************)
\* largest value of the wall clock
MaxTime == 3
\* calls are explored while they leave at most this many events in the batch
MaxCount == 3
\* largest batch size limit explored by the ship-predicate specification
MaxShipSize == 10
\* largest number of event lines after the first line of an agent body
MaxLines == 1
\* iterations of a loop that calls into the batch
MaxLoop == 2

(***************************************************************************)
(* Events and byte strings.                                                *)
(***************************************************************************)
Event(key, id, timestamp, duration, result, outcome, tag, name) ==
    [key |-> key, id |-> id, timestamp |-> timestamp, duration |-> duration,
     result |-> result, outcome |-> outcome, tag |-> tag, name |-> name]

\* batch.go:47  newLineSep = []byte("\n")
newLineSep == Event("\n", "", 0, 0, "", "", -1, "")

\* events an agent or the extension may submit
Meta1 == Event("metadata", "m1", 0, 0, "", "", -1, "")
Meta2 == Event("metadata", "m2", 0, 0, "", "", -1, "")
AgentTxn == Event("transaction", "t1", 5000, 2, "", "", -1, "")
AgentSpan == Event("span", "s1", 5000, 1, "", "", -1, "")
\* the transaction of a second announcement
AgentTxn2 == Event("transaction", "t2", 5000, 2, "", "", -1, "")
\* a transaction event without a transaction.id
AgentTxnNoID == Event("transaction", "", 5000, 2, "", "", -1, "")
LambdaMetric == Event("metricset", "", 0, 0, "", "", -1, "")
\* the partial transaction an agent registers before running user code
PartialTxn == Event("transaction", "t1", 5000, 0, "", "", -1, "")

\* the leading bytes of an event: {"<key>":
KeyChars(key) ==
    CASE key = "transaction" -> <<"t","r","a","n","s","a","c","t","i","o","n">>
      [] key = "metadata"    -> <<"m","e","t","a","d","a","t","a">>
      [] key = "metricset"   -> <<"m","e","t","r","i","c","s","e","t">>
      [] key = "span"        -> <<"s","p","a","n">>
      [] OTHER               -> <<>>

RECURSIVE Text(_)
Text(bytes) ==
    IF bytes = <<>> THEN <<>>
    ELSE <<"{", "\"">> \o KeyChars(Head(bytes).key) \o <<"\"", ":">> \o Text(Tail(bytes))

\* batch.go:48
transactionKey == <<"t","r","a","n","s","a","c","t","i","o","n">>


(***************************************************************************)
(* Helpers on byte strings.                                                *)
(***************************************************************************)
\* bytes.Cut(s, newLineSep): the bytes before and after the first newline
CutIndex(s) ==
    IF \E i \in 1..Len(s) : s[i] = newLineSep
    THEN CHOOSE i \in 1..Len(s) : s[i] = newLineSep /\ \A j \in 1..(i-1) : s[j] # newLineSep
    ELSE 0

Cut(s) ==
    LET i == CutIndex(s)
    IN IF i = 0 THEN [before |-> s, after |-> <<>>]
       ELSE [before |-> SubSeq(s, 1, i-1), after |-> SubSeq(s, i+1, Len(s))]

\* a variant of isTransactionEvent that also asks for the quote that closes
\* the key
isTransactionText_Closed(text) ==
    LET quotes == {i \in 1..Len(text) : text[i] \in {"\"", "'"}}
        key == IF quotes = {} THEN <<>>
               ELSE LET q == CHOOSE i \in quotes : \A j \in quotes : i <= j
                    IN SubSeq(text, q+1, Len(text))
    IN IF Len(key) < Len(transactionKey) + 1 THEN FALSE
       ELSE /\ \A i \in 1..Len(transactionKey) : transactionKey[i] = key[i]
            /\ key[Len(transactionKey) + 1] \in {"\"", "'"}

\* batch.go:404-421 on the bytes of the line
isTransactionText(text) ==
    LET quotes == {i \in 1..Len(text) : text[i] \in {"\"", "'"}}
        key == IF quotes = {} THEN <<>>
               ELSE LET q == CHOOSE i \in quotes : \A j \in quotes : i <= j
                    IN SubSeq(text, q+1, Len(text))
    IN IF Len(key) < Len(transactionKey) THEN FALSE
       ELSE \A i \in 1..Len(transactionKey) : transactionKey[i] = key[i]

\* batch.go:404-421 on a line of events
isTransactionEvent(body) == isTransactionText(Text(body))

\* gjson.GetBytes(data, "transaction.<field>") on the first JSON value of data
HasTxn(data) == data # <<>> /\ Head(data).key = "transaction"
TxnID(data) == IF HasTxn(data) THEN Head(data).id ELSE ""
TxnTimestamp(data) == IF HasTxn(data) THEN Head(data).timestamp ELSE 0
TxnDuration(data) == IF HasTxn(data) THEN Head(data).duration ELSE 0

(***************************************************************************)
(* Invocation records.                                                     *)
(***************************************************************************)
\* &Invocation{}
BlankInvocation ==
    [RequestID |-> "", FunctionARN |-> "", DeadlineMs |-> 0, Timestamp |-> 0,
     TransactionID |-> "", AgentPayload |-> <<>>,
     TransactionObserved |-> FALSE, Finalized |-> FALSE]

\* the invocation expects a proxy: transaction id set and transaction not observed
NeedProxyTransaction(inc) ==
    inc.TransactionID # "" /\ ~inc.TransactionObserved

\* result/outcome of a proxy transaction for a terminal status
OutcomeOf(status) == IF status = "success" THEN "success" ELSE "failure"

\* the proxy transaction built from the stored agent payload, or no bytes
\* when the transaction was observed or no payload was stored
CreateProxyTxn(inc, status, time) ==
    IF inc.TransactionObserved \/ inc.AgentPayload = <<>>
    THEN <<>>
    ELSE <<[Head(inc.AgentPayload) EXCEPT !.result = status,
                                          !.duration = time - inc.Timestamp,
                                          !.outcome = OutcomeOf(status)]>>
         \o Tail(inc.AgentPayload)

(***************************************************************************)
(* Cold-start synthesis.                                                   *)
(***************************************************************************)
\* batch.go:460-501  NewLambdaSpan followed by GetBytes; the random span id
\* is left out, the parent transaction id is kept in the id field
LambdaSpan(spanType, parentTxID, timestamp, duration) ==
    <<Event("span", parentTxID, timestamp, duration, "", "", -1,
            IF spanType = "handle" THEN "AWS Lambda Handle"
            ELSE "AWS Lambda Initialize")>>

\* the spacing of the float32 values around the whole number n >= 0: a
\* float32 carries 24 significant bits
RECURSIVE Ulp(_)
Ulp(n) == IF n < 2^24 THEN 1 ELSE 2 * Ulp(n \div 2)

\* the float32 nearest to the whole number n >= 0, ties to the even
\* significand: what a float32 sum or product of that exact value holds
Float32(n) ==
    LET u == Ulp(n)
        lo == (n \div u) * u
    IN IF 2 * (n - lo) < u THEN lo
       ELSE IF 2 * (n - lo) > u THEN lo + u
       ELSE IF (lo \div u) % 2 = 0 THEN lo ELSE lo + u

\* a variant of adjustTimestamp that moves the start back and leaves the
\* duration as it was
adjustTimestamp_KeepDuration(txData, initDurationMs) ==
    LET oldTimestamp == TxnTimestamp(txData)
        newTimestamp == oldTimestamp - Float32(initDurationMs * 1000)
        oldDuration == TxnDuration(txData)
    IN [txn |-> <<[Head(txData) EXCEPT !.timestamp = newTimestamp,
                                       !.tag = initDurationMs]>> \o Tail(txData),
        startTime |-> newTimestamp,
        handleStart |-> oldTimestamp,
        handleDuration |-> oldDuration]

\* a variant of adjustTimestamp that moves the transaction start forward
adjustTimestamp_Forward(txData, initDurationMs) ==
    LET oldTimestamp == TxnTimestamp(txData)
        newTimestamp == oldTimestamp + initDurationMs * 1000
        oldDuration == TxnDuration(txData)
        newDuration == oldDuration + initDurationMs
    IN [txn |-> <<[Head(txData) EXCEPT !.timestamp = newTimestamp,
                                       !.duration = newDuration,
                                       !.tag = initDurationMs]>> \o Tail(txData),
        startTime |-> newTimestamp,
        handleStart |-> oldTimestamp,
        handleDuration |-> oldDuration]

\* batch.go:380-402  durations are whole milliseconds held in float32:
\* the product and the sum are float32 operations
adjustTimestamp(txData, initDurationMs) ==
    LET oldTimestamp == TxnTimestamp(txData)
        newTimestamp == oldTimestamp - Float32(initDurationMs * 1000)
        oldDuration == TxnDuration(txData)
        newDuration == Float32(oldDuration + initDurationMs)
    IN [txn |-> <<[Head(txData) EXCEPT !.timestamp = newTimestamp,
                                       !.duration = newDuration,
                                       !.tag = initDurationMs]>> \o Tail(txData),
        startTime |-> newTimestamp,
        handleStart |-> oldTimestamp,
        handleDuration |-> oldDuration]

(***************************************************************************)
(* State: the fields of Batch (batch.go:56-76), the wall clock, and two     *)
(* records of the past: the first line of the first agent body that        *)
(* AddAgentData accepted, and the request ids whose record OnPlatformReport *)
(* removed and that were not registered again since.                       *)
(***************************************************************************)
VARIABLES metadataBytes, buf, invocations, count, age, maxSize, maxAge,
          currentlyExecutingRequestID, coldstartDurationMs, now, firstAccepted,
          reported

\* the agent ingress (route_handlers.go): the requests being handled, one
\* per connection, with the position of each handler; what was sent on the
\* agent-data channel, in order; the number of agent-done signals sent
VARIABLES requests, agentDataChan, AgentDoneSignal

\* the invocation coordinator: the send strategy, where the Lifecycle
\* Client stands, and the latest ship attempt
VARIABLES sendStrategy, lifecycle, lastShip

\* isTransactionEvent on its own: the bytes it is given and what it returned
VARIABLES scanned, verdict

\* Batch.mu, the readers-writer lock, and the call stack of each goroutine
\* that calls into the batch
VARIABLES mu, stacks

\* the caller of ToAPMData and, once it has sent, of Reset: where it stands,
\* the bytes ToAPMData returned to it, and the bytes its latest Reset cut
\* from the buffer
VARIABLES shipper

\* the slice ToAPMData returned: the bytes it held when it was returned,
\* the bytes it reads as now, whether it still shares the array of the
\* buffer, and how far that array has been written
VARIABLES held

ingressVars == <<requests, agentDataChan, AgentDoneSignal>>
coordVars == <<sendStrategy, lifecycle, lastShip>>
unitVars == <<scanned, verdict, mu, stacks, shipper, held>>

vars == <<metadataBytes, buf, invocations, count, age, maxSize, maxAge,
          currentlyExecutingRequestID, coldstartDurationMs, now, firstAccepted,
          reported, ingressVars, coordVars, unitVars>>

\* time.Time{}
zeroTime == 0

\* the mutable fields of the batch as one value, threaded through the
\* methods
Batch ==
    [metadataBytes |-> metadataBytes, buf |-> buf, invocations |-> invocations,
     count |-> count, age |-> age,
     currentlyExecutingRequestID |-> currentlyExecutingRequestID,
     coldstartDurationMs |-> coldstartDurationMs]

Store(b) ==
    /\ metadataBytes' = b.metadataBytes
    /\ buf' = b.buf
    /\ invocations' = b.invocations
    /\ count' = b.count
    /\ age' = b.age
    /\ currentlyExecutingRequestID' = b.currentlyExecutingRequestID
    /\ coldstartDurationMs' = b.coldstartDurationMs

Remove(f, k) == [x \in DOMAIN f \ {k} |-> f[x]]

Upsert(f, k, v) == [x \in DOMAIN f \cup {k} |-> IF x = k THEN v ELSE f[x]]

(***************************************************************************)
(* The methods of Batch as functions of the batch: each returns the batch  *)
(* it leaves and the error it returns.                                     *)
(***************************************************************************)
RECURSIVE addData(_, _, _)
RECURSIVE modelInitPhase(_, _)

\* a variant of addData that writes a newline for an empty datum too
addData_WriteEmpty(b, data, isTx) ==
    IF b.metadataBytes = 0 THEN [b |-> b, err |-> "ErrMetadataUnavailable"]
    ELSE LET r == IF isTx /\ b.coldstartDurationMs >= 0
                  THEN modelInitPhase(b, data)
                  ELSE [b |-> b, data |-> data]
         IN [b |-> [r.b EXCEPT !.buf = (@ \o <<newLineSep>>) \o r.data,
                               !.age = IF r.b.count = 0 THEN now ELSE @,
                               !.count = @ + 1],
             err |-> "nil"]

\* a variant of addData that ends every event with a newline instead of
\* starting it with one
addData_TrailingSep(b, data, isTx) ==
    IF Len(data) = 0 THEN [b |-> b, err |-> "nil"]
    ELSE IF b.metadataBytes = 0 THEN [b |-> b, err |-> "ErrMetadataUnavailable"]
    ELSE LET r == IF isTx /\ b.coldstartDurationMs >= 0
                  THEN modelInitPhase(b, data)
                  ELSE [b |-> b, data |-> data]
         IN [b |-> [r.b EXCEPT !.buf = (@ \o r.data) \o <<newLineSep>>,
                               !.age = IF r.b.count = 0 THEN now ELSE @,
                               !.count = @ + 1],
             err |-> "nil"]

\* a variant of addData that stamps the age at every append
addData_Restamp(b, data, isTx) ==
    IF Len(data) = 0 THEN [b |-> b, err |-> "nil"]
    ELSE IF b.metadataBytes = 0 THEN [b |-> b, err |-> "ErrMetadataUnavailable"]
    ELSE LET r == IF isTx /\ b.coldstartDurationMs >= 0
                  THEN modelInitPhase(b, data)
                  ELSE [b |-> b, data |-> data]
         IN [b |-> [r.b EXCEPT !.buf = (@ \o <<newLineSep>>) \o r.data,
                               !.age = now,
                               !.count = @ + 1],
             err |-> "nil"]

\* a variant of addData that writes the event right after the metadata
\* line, ahead of the events already in the batch
addData_Front(b, data, isTx) ==
    IF Len(data) = 0 THEN [b |-> b, err |-> "nil"]
    ELSE IF b.metadataBytes = 0 THEN [b |-> b, err |-> "ErrMetadataUnavailable"]
    ELSE LET r == IF isTx /\ b.coldstartDurationMs >= 0
                  THEN modelInitPhase(b, data)
                  ELSE [b |-> b, data |-> data]
         IN [b |-> [r.b EXCEPT !.buf = ((SubSeq(@, 1, b.metadataBytes) \o <<newLineSep>>)
                                           \o r.data)
                                       \o SubSeq(@, b.metadataBytes + 1, Len(@)),
                               !.age = IF r.b.count = 0 THEN now ELSE @,
                               !.count = @ + 1],
             err |-> "nil"]

\* batch.go:306-333
addData(b, data, isTx) ==
    IF Len(data) = 0 THEN [b |-> b, err |-> "nil"]
    ELSE IF b.metadataBytes = 0 THEN [b |-> b, err |-> "ErrMetadataUnavailable"]
    ELSE LET r == IF isTx /\ b.coldstartDurationMs >= 0
                  THEN modelInitPhase(b, data)
                  ELSE [b |-> b, data |-> data]
         IN [b |-> [r.b EXCEPT !.buf = (@ \o <<newLineSep>>) \o r.data,
                               !.age = IF r.b.count = 0 THEN now ELSE @,
                               !.count = @ + 1],
             err |-> "nil"]

\* a variant of modelInitPhase that leaves the cold-start duration pending
modelInitPhase_KeepCredit(b, txData) ==
    LET initDurationMs == b.coldstartDurationMs
        a == adjustTimestamp(txData, initDurationMs)
        txID == TxnID(txData)
        b2 == addData(b, LambdaSpan("init", txID, a.startTime, initDurationMs), FALSE).b
        b3 == addData(b2, LambdaSpan("handle", txID, a.handleStart, a.handleDuration), FALSE).b
    IN [b |-> b3, data |-> a.txn]

\* batch.go:335-378
modelInitPhase(b, txData) ==
    LET initDurationMs == b.coldstartDurationMs
        a == adjustTimestamp(txData, initDurationMs)
        b1 == [b EXCEPT !.coldstartDurationMs = -1]
        txID == TxnID(txData)
        b2 == addData(b1, LambdaSpan("init", txID, a.startTime, initDurationMs), FALSE).b
        b3 == addData(b2, LambdaSpan("handle", txID, a.handleStart, a.handleDuration), FALSE).b
    IN [b |-> b3, data |-> a.txn]

\* a variant of finalizeInvocation that drops the record once it is
\* finalized
finalizeInvocation_Remove(b, reqID, status, time) ==
    IF reqID \notin DOMAIN b.invocations
    THEN [b |-> b, err |-> "ErrUnknownRequest"]
    ELSE LET proxyTxn == CreateProxyTxn(b.invocations[reqID], status, time)
             r == addData(b, proxyTxn, TRUE)
         IN IF r.err # "nil" THEN r
            ELSE [b |-> [r.b EXCEPT !.invocations = Remove(@, reqID)], err |-> "nil"]

\* a variant of finalizeInvocation that appends the proxy transaction and
\* leaves the record not finalized
finalizeInvocation_NoMark(b, reqID, status, time) ==
    IF reqID \notin DOMAIN b.invocations
    THEN [b |-> b, err |-> "ErrUnknownRequest"]
    ELSE addData(b, CreateProxyTxn(b.invocations[reqID], status, time), TRUE)

\* batch.go:289-304
finalizeInvocation(b, reqID, status, time) ==
    IF reqID \notin DOMAIN b.invocations
    THEN [b |-> b, err |-> "ErrUnknownRequest"]
    ELSE LET proxyTxn == CreateProxyTxn(b.invocations[reqID], status, time)
             r == addData(b, proxyTxn, TRUE)
         IN IF r.err # "nil" THEN r
            ELSE [b |-> [r.b EXCEPT !.invocations[reqID].Finalized = TRUE],
                  err |-> "nil"]

\* a variant of RegisterInvocation that always starts from a blank record
registerInvocation_Fresh(b, reqID, functionARN, deadlineMs, timestamp) ==
    [b |-> [b EXCEPT !.invocations =
                         Upsert(@, reqID, [BlankInvocation EXCEPT !.RequestID = reqID,
                                                                  !.FunctionARN = functionARN,
                                                                  !.DeadlineMs = deadlineMs,
                                                                  !.Timestamp = timestamp]),
                     !.currentlyExecutingRequestID = reqID],
     err |-> "nil"]

\* batch.go:98-116
registerInvocation(b, reqID, functionARN, deadlineMs, timestamp) ==
    LET i == IF reqID \in DOMAIN b.invocations THEN b.invocations[reqID]
             ELSE BlankInvocation
    IN [b |-> [b EXCEPT !.invocations =
                            Upsert(@, reqID, [i EXCEPT !.RequestID = reqID,
                                                       !.FunctionARN = functionARN,
                                                       !.DeadlineMs = deadlineMs,
                                                       !.Timestamp = timestamp]),
                        !.currentlyExecutingRequestID = reqID],
        err |-> "nil"]

\* batch.go:122-137
onAgentInit(b, reqID, txnID, payload) ==
    IF ~isTransactionEvent(payload) THEN [b |-> b, err |-> "ErrInvalidPayload"]
    ELSE LET i == IF reqID \in DOMAIN b.invocations THEN b.invocations[reqID]
                  ELSE BlankInvocation
         IN [b |-> [b EXCEPT !.invocations =
                                 Upsert(@, reqID, [i EXCEPT !.TransactionID = txnID,
                                                            !.AgentPayload = payload]),
                             !.currentlyExecutingRequestID = reqID],
             err |-> "nil"]

\* what an agent sends: the body compressed as the header says.  Data holds
\* the body; compressed bytes carry at least a header of their own.
APMData(body, encoding) == [Data |-> body, ContentEncoding |-> encoding]

\* len(apmData.Data)
WireLen(apmData) ==
    Len(apmData.Data) + (IF apmData.ContentEncoding = "" THEN 0 ELSE 1)

\* decompression by content encoding: deflate, gzip and identity are
\* accepted, anything else is an invalid encoding
GetUncompressedBytes(apmData) ==
    IF apmData.ContentEncoding \in {"", "gzip", "deflate"}
    THEN [raw |-> apmData.Data, err |-> "nil"]
    ELSE [raw |-> <<>>, err |-> "ErrInvalidEncoding"]

\* a variant of the drain loop that marks the transaction observed on every
\* invocation that announced the id of the event
RECURSIVE drain_MarkAll(_, _)
drain_MarkAll(b, rest) ==
    LET c == Cut(rest)
        data == c.before
        isTx == isTransactionEvent(data)
        b1 == IF isTx /\ TxnID(data) # ""
              THEN [b EXCEPT !.invocations =
                       [reqID \in DOMAIN @ |->
                           IF @[reqID].TransactionID = TxnID(data)
                           THEN [@[reqID] EXCEPT !.TransactionObserved = TRUE]
                           ELSE @[reqID]]]
              ELSE b
        r == addData(b1, data, isTx)
    IN IF r.err # "nil" THEN r
       ELSE IF Len(c.after) = 0 THEN r
       ELSE drain_MarkAll(r.b, c.after)

\* a variant of the drain loop that takes any transaction event for the
\* transaction of the executing invocation
RECURSIVE drain_ObserveAny(_, _)
drain_ObserveAny(b, rest) ==
    LET c == Cut(rest)
        data == c.before
        isTx == isTransactionEvent(data)
        cur == b.currentlyExecutingRequestID
        b1 == IF isTx
              THEN [b EXCEPT !.invocations[cur].TransactionObserved = TRUE]
              ELSE b
        r == addData(b1, data, isTx)
    IN IF r.err # "nil" THEN r
       ELSE IF Len(c.after) = 0 THEN r
       ELSE drain_ObserveAny(r.b, c.after)

\* batch.go:172-188  the drain loop over the bytes after the first line
RECURSIVE drain(_, _)
drain(b, rest) ==
    LET c == Cut(rest)
        data == c.before
        isTx == isTransactionEvent(data)
        cur == b.currentlyExecutingRequestID
        inc == b.invocations[cur]
        b1 == IF /\ NeedProxyTransaction(inc) /\ isTx
                 /\ TxnID(data) # "" /\ inc.TransactionID = TxnID(data)
              THEN [b EXCEPT !.invocations[cur].TransactionObserved = TRUE]
              ELSE b
        r == addData(b1, data, isTx)
    IN IF r.err # "nil" THEN r
       ELSE IF Len(c.after) = 0 THEN r
       ELSE drain(r.b, c.after)

\* a variant of AddAgentData that writes the first line of every accepted
\* body, not only of the first
addAgentData_EveryFirstLine(b, apmData) ==
    LET u == GetUncompressedBytes(apmData)
        c == Cut(u.raw)
        b1 == [b EXCEPT !.buf = @ \o c.before,
                        !.metadataBytes = IF @ = 0 THEN Len(c.before) ELSE @]
    IN IF WireLen(apmData) = 0 THEN [b |-> b, err |-> "nil"]
       ELSE IF u.err # "nil" THEN [b |-> b, err |-> u.err]
       ELSE IF b.count >= maxSize THEN [b |-> b, err |-> "ErrBatchFull"]
       ELSE IF b.currentlyExecutingRequestID = "" THEN [b |-> b, err |-> "ErrLifecycle"]
       ELSE IF b.currentlyExecutingRequestID \notin DOMAIN b.invocations
            THEN [b |-> b, err |-> "ErrNoInvocation"]
       ELSE drain(b1, c.after)

\* a variant of AddAgentData that caches the metadata line before it looks
\* for the executing request
addAgentData_EagerMetadata(b, apmData) ==
    LET u == GetUncompressedBytes(apmData)
        c == Cut(u.raw)
        b1 == IF b.metadataBytes = 0
              THEN [b EXCEPT !.buf = @ \o c.before, !.metadataBytes = Len(c.before)]
              ELSE b
    IN IF WireLen(apmData) = 0 THEN [b |-> b, err |-> "nil"]
       ELSE IF u.err # "nil" THEN [b |-> b, err |-> u.err]
       ELSE IF b.count >= maxSize THEN [b |-> b, err |-> "ErrBatchFull"]
       ELSE IF b.currentlyExecutingRequestID = "" THEN [b |-> b1, err |-> "ErrLifecycle"]
       ELSE IF b.currentlyExecutingRequestID \notin DOMAIN b.invocations
            THEN [b |-> b1, err |-> "ErrNoInvocation"]
       ELSE drain(b1, c.after)

\* a variant of AddAgentData that refuses only once the batch is over its
\* limit
addAgentData_OverFull(b, apmData) ==
    LET u == GetUncompressedBytes(apmData)
        c == Cut(u.raw)
        b1 == IF b.metadataBytes = 0
              THEN [b EXCEPT !.buf = @ \o c.before, !.metadataBytes = Len(c.before)]
              ELSE b
    IN IF WireLen(apmData) = 0 THEN [b |-> b, err |-> "nil"]
       ELSE IF u.err # "nil" THEN [b |-> b, err |-> u.err]
       ELSE IF b.count > maxSize THEN [b |-> b, err |-> "ErrBatchFull"]
       ELSE IF b.currentlyExecutingRequestID = "" THEN [b |-> b, err |-> "ErrLifecycle"]
       ELSE IF b.currentlyExecutingRequestID \notin DOMAIN b.invocations
            THEN [b |-> b, err |-> "ErrNoInvocation"]
       ELSE drain(b1, c.after)

\* batch.go:144-189
addAgentData(b, apmData) ==
    LET u == GetUncompressedBytes(apmData)
        c == Cut(u.raw)
        b1 == IF b.metadataBytes = 0
              THEN [b EXCEPT !.buf = @ \o c.before, !.metadataBytes = Len(c.before)]
              ELSE b
    IN IF WireLen(apmData) = 0 THEN [b |-> b, err |-> "nil"]
       ELSE IF u.err # "nil" THEN [b |-> b, err |-> u.err]
       ELSE IF b.count >= maxSize THEN [b |-> b, err |-> "ErrBatchFull"]
       ELSE IF b.currentlyExecutingRequestID = "" THEN [b |-> b, err |-> "ErrLifecycle"]
       ELSE IF b.currentlyExecutingRequestID \notin DOMAIN b.invocations
            THEN [b |-> b, err |-> "ErrNoInvocation"]
       ELSE drain(b1, c.after)

\* a variant of OnPlatformReport that clears the executing request id when
\* it removes the record it names
onPlatformReport_ClearCurrent(b, reqID) ==
    IF reqID \notin DOMAIN b.invocations
    THEN [b |-> b, err |-> "ErrUnknownRequest", ret |-> <<"", 0, zeroTime>>]
    ELSE LET inc == b.invocations[reqID]
         IN [b |-> [b EXCEPT !.invocations = Remove(@, reqID),
                             !.currentlyExecutingRequestID =
                                 IF @ = reqID THEN "" ELSE @],
             err |-> "nil",
             ret |-> <<inc.FunctionARN, inc.DeadlineMs, inc.Timestamp>>]

\* a variant of OnPlatformReport that clears the whole registry
onPlatformReport_DropAll(b, reqID) ==
    IF reqID \notin DOMAIN b.invocations
    THEN [b |-> b, err |-> "ErrUnknownRequest", ret |-> <<"", 0, zeroTime>>]
    ELSE LET inc == b.invocations[reqID]
         IN [b |-> [b EXCEPT !.invocations = <<>>],
             err |-> "nil",
             ret |-> <<inc.FunctionARN, inc.DeadlineMs, inc.Timestamp>>]

\* a variant of OnPlatformReport that returns the tuple and keeps the record
onPlatformReport_Keep(b, reqID) ==
    IF reqID \notin DOMAIN b.invocations
    THEN [b |-> b, err |-> "ErrUnknownRequest", ret |-> <<"", 0, zeroTime>>]
    ELSE LET inc == b.invocations[reqID]
         IN [b |-> b, err |-> "nil",
             ret |-> <<inc.FunctionARN, inc.DeadlineMs, inc.Timestamp>>]

\* batch.go:204-213
onPlatformReport(b, reqID) ==
    IF reqID \notin DOMAIN b.invocations
    THEN [b |-> b, err |-> "ErrUnknownRequest", ret |-> <<"", 0, zeroTime>>]
    ELSE LET inc == b.invocations[reqID]
         IN [b |-> [b EXCEPT !.invocations = Remove(@, reqID)],
             err |-> "nil",
             ret |-> <<inc.FunctionARN, inc.DeadlineMs, inc.Timestamp>>]

\* batch.go:215-219
onPlatformInitReport(b, reqID, initDurationMs) ==
    [b |-> [b EXCEPT !.coldstartDurationMs = initDurationMs], err |-> "nil"]

\* a variant of OnShutdown that deletes the invocation it could not finalize
\* before it returns the error
RECURSIVE onShutdown_DropFailed(_, _, _)
onShutdown_DropFailed(b, order, status) ==
    IF order = <<>> THEN [b |-> b, err |-> "nil"]
    ELSE IF Head(order) \notin DOMAIN b.invocations
    THEN onShutdown_DropFailed(b, Tail(order), status)
    ELSE LET inc == b.invocations[Head(order)]
             r == finalizeInvocation(b, inc.RequestID, status, inc.DeadlineMs)
         IN IF r.err # "nil"
            THEN [b |-> [r.b EXCEPT !.invocations = Remove(@, Head(order))], err |-> r.err]
            ELSE onShutdown_DropFailed([r.b EXCEPT !.invocations = Remove(@, inc.RequestID)],
                                       Tail(order), status)

\* a variant of OnShutdown that skips an invocation it cannot finalize and
\* goes on with the rest
RECURSIVE onShutdown_SkipFailed(_, _, _)
onShutdown_SkipFailed(b, order, status) ==
    IF order = <<>> THEN [b |-> b, err |-> "nil"]
    ELSE IF Head(order) \notin DOMAIN b.invocations
    THEN onShutdown_SkipFailed(b, Tail(order), status)
    ELSE LET inc == b.invocations[Head(order)]
             r == finalizeInvocation(b, inc.RequestID, status, inc.DeadlineMs)
         IN IF r.err # "nil" THEN onShutdown_SkipFailed(b, Tail(order), status)
            ELSE onShutdown_SkipFailed([r.b EXCEPT !.invocations = Remove(@, inc.RequestID)],
                                       Tail(order), status)

\* batch.go:225-240  the range over the map visits the records in the order
\* the runtime picks; a record deleted before it is reached is not visited
RECURSIVE onShutdown(_, _, _)
onShutdown(b, order, status) ==
    IF order = <<>> THEN [b |-> b, err |-> "nil"]
    ELSE IF Head(order) \notin DOMAIN b.invocations
    THEN onShutdown(b, Tail(order), status)
    ELSE LET inc == b.invocations[Head(order)]
             r == finalizeInvocation(b, inc.RequestID, status, inc.DeadlineMs)
         IN IF r.err # "nil" THEN r
            ELSE onShutdown([r.b EXCEPT !.invocations = Remove(@, inc.RequestID)],
                            Tail(order), status)

\* the orders in which a range over the map may visit its keys
Orders(S) ==
    {p \in [1..Cardinality(S) -> S] : \A x \in S : \E i \in DOMAIN p : p[i] = x}

\* batch.go:244-251
addLambdaData(b, d) ==
    IF b.count >= maxSize THEN [b |-> b, err |-> "ErrBatchFull"]
    ELSE addData(b, d, FALSE)

\* a variant of ShouldShip that waits for the count to pass the threshold
shouldShip_Strict(b) ==
    \/ b.count > (maxSize * 9) \div 10
    \/ (b.age # zeroTime /\ now - b.age > maxAge)

\* batch.go:265-270  int(float64(maxSize) * 0.9) is the integer part of
\* 9 * maxSize / 10 for every size up to two million
shouldShip(b) ==
    \/ b.count >= (maxSize * 9) \div 10
    \/ (b.age # zeroTime /\ now - b.age > maxAge)

\* a variant of Reset that zeroes the count and the age and leaves the
\* events in the buffer
reset_NoTruncate(b) ==
    [b EXCEPT !.count = 0, !.age = zeroTime]

\* a variant of Reset that keeps the age of the batch
reset_KeepAge(b) ==
    [b EXCEPT !.count = 0, !.buf = SubSeq(@, 1, b.metadataBytes)]

\* batch.go:273-278
reset(b) ==
    [b EXCEPT !.count = 0, !.age = zeroTime, !.buf = SubSeq(@, 1, b.metadataBytes)]

\* batch.go:281-287
toAPMData(b) == APMData(b.buf, "")


(***************************************************************************)
(* Inputs.                                                                 *)
(***************************************************************************)
ReqIDs == {"A", "B"}
\* the invoke events of the two requests: function ARN, deadline, timestamp
Invoke(reqID) ==
    IF reqID = "A" THEN <<"arn", 1000, 2>> ELSE <<"arn", 2000, 2>>
DoneTimes == {12}
\* the statuses platform.runtimeDone reports and the one guessed at shutdown
Statuses == {"success", "failure"}
ShutdownStatuses == {"timeout"}
InitDurations == {100}
Encodings == {"", "gzip", "br"}
InitPayloads == {<<PartialTxn>>, <<AgentSpan>>}
LambdaInputs == {<<>>, <<LambdaMetric>>}

\* a decompressed agent body: a first line and further newline-separated lines
FirstLines == {<<>>, <<Meta1>>, <<Meta2>>}
EventLines == {<<>>, <<AgentTxn>>, <<AgentSpan>>}

RECURSIVE Bodies(_)
Bodies(n) ==
    IF n = 0 THEN FirstLines
    ELSE Bodies(n - 1) \cup
         {(body \o <<newLineSep>>) \o line : body \in Bodies(n - 1), line \in EventLines}

Payloads == Bodies(MaxLines)

(***************************************************************************)
(* The agent ingress and the coordinator at rest.                          *)
(***************************************************************************)
\* the connections on which an agent may have a request in flight
Connections == {"c1", "c2"}

\* no request on a connection
NoRequest ==
    [pc |-> "none", body |-> <<>>, encoding |-> "", flushed |-> <<>>,
     rawBytes |-> <<>>, err |-> FALSE, response |-> <<>>, events |-> <<>>]

\* no request in flight, nothing sent on either channel
IngressIdle ==
    /\ requests = [c \in Connections |-> NoRequest]
    /\ agentDataChan = <<>>
    /\ AgentDoneSignal = 0

\* no ship attempted yet
NoShip == [made |-> FALSE, ok |-> FALSE, data |-> <<>>, count |-> 0, age |-> 0]

\* isTransactionEvent not called
NoVerdict == [returned |-> FALSE, value |-> FALSE]

\* the goroutines that call into the batch
Goroutines == {"g1", "g2"}

\* sync.RWMutex, zero value: no writer, no readers
Unlocked == [writer |-> "", readers |-> {}]

\* no goroutine inside the batch
LockIdle ==
    /\ mu = Unlocked
    /\ stacks = [g \in Goroutines |-> <<>>]

\* the shipper before its first ToAPMData
ShipperIdle == shipper = [at |-> "idle", data |-> <<>>, truncated |-> <<>>]

\* ToAPMData not called
NoSlice == [taken |-> FALSE, original |-> <<>>, reads |-> <<>>, shared |-> FALSE, extent |-> 0]

UnitIdle ==
    /\ scanned = <<>>
    /\ verdict = NoVerdict
    /\ LockIdle
    /\ ShipperIdle
    /\ held = NoSlice

\* the default strategy, the Lifecycle Client waiting for its first event
CoordinatorIdle ==
    /\ sendStrategy = "syncflush"
    /\ lifecycle = "next"
    /\ lastShip = NoShip

(***************************************************************************)
(* The public operations of Batch as actions.                              *)
(***************************************************************************)
\* batch.go:80-87
Init ==
    /\ metadataBytes = 0
    /\ buf = <<>>
    /\ invocations = <<>>
    /\ count = 0
    /\ age = zeroTime
    /\ maxSize = 2
    /\ maxAge = 1
    /\ currentlyExecutingRequestID = ""
    /\ coldstartDurationMs = -1
    /\ now = 1
    /\ firstAccepted = [seen |-> FALSE, line |-> <<>>]
    /\ reported = {}
    /\ IngressIdle
    /\ UnitIdle
    /\ CoordinatorIdle

RegisterInvocation(reqID, functionARN, deadlineMs, timestamp) ==
    LET r == registerInvocation(Batch, reqID, functionARN, deadlineMs, timestamp)
    IN /\ Store(r.b)
       /\ reported' = reported \ {reqID}
       /\ UNCHANGED <<ingressVars, coordVars, unitVars, maxSize, maxAge, now, firstAccepted>>

OnAgentInit(reqID, txnID, payload) ==
    LET r == onAgentInit(Batch, reqID, txnID, payload)
    IN /\ Store(r.b)
       /\ reported' = IF r.err = "nil" THEN reported \ {reqID} ELSE reported
       /\ UNCHANGED <<ingressVars, coordVars, unitVars, maxSize, maxAge, now, firstAccepted>>

AddAgentData(apmData) ==
    LET r == addAgentData(Batch, apmData)
    IN /\ Store(r.b)
       /\ firstAccepted' =
              IF ~firstAccepted.seen /\ WireLen(apmData) > 0 /\ r.err = "nil"
              THEN [seen |-> TRUE, line |-> Cut(apmData.Data).before]
              ELSE firstAccepted
       /\ UNCHANGED <<ingressVars, coordVars, unitVars, maxSize, maxAge, now, reported>>

OnLambdaLogRuntimeDone(reqID, status, time) ==
    LET r == finalizeInvocation(Batch, reqID, status, time)
    IN /\ Store(r.b)
       /\ UNCHANGED <<ingressVars, coordVars, unitVars, maxSize, maxAge, now, firstAccepted, reported>>

OnPlatformReport(reqID) ==
    LET r == onPlatformReport(Batch, reqID)
    IN /\ Store(r.b)
       /\ reported' = IF r.err = "nil" THEN reported \cup {reqID} ELSE reported
       /\ UNCHANGED <<ingressVars, coordVars, unitVars, maxSize, maxAge, now, firstAccepted>>

OnPlatformInitReport(reqID, initDurationMs) ==
    LET r == onPlatformInitReport(Batch, reqID, initDurationMs)
    IN /\ Store(r.b)
       /\ UNCHANGED <<ingressVars, coordVars, unitVars, maxSize, maxAge, now, firstAccepted, reported>>

OnShutdown(status) ==
    \E order \in Orders(DOMAIN invocations) :
        LET r == onShutdown(Batch, order, status)
        IN /\ Store(r.b)
           /\ UNCHANGED <<ingressVars, coordVars, unitVars, maxSize, maxAge, now, firstAccepted, reported>>

AddLambdaData(d) ==
    LET r == addLambdaData(Batch, d)
    IN /\ Store(r.b)
       /\ UNCHANGED <<ingressVars, coordVars, unitVars, maxSize, maxAge, now, firstAccepted, reported>>

ShouldShip ==
    /\ shouldShip(Batch) \in BOOLEAN
    /\ UNCHANGED <<ingressVars, coordVars, unitVars,
                   metadataBytes, buf, invocations, count, age, maxSize, maxAge,
                   currentlyExecutingRequestID, coldstartDurationMs, now, firstAccepted,
          reported>>

Reset ==
    /\ Store(reset(Batch))
    /\ UNCHANGED <<ingressVars, coordVars, unitVars, maxSize, maxAge, now, firstAccepted, reported>>

\* the wall clock advances
Tick ==
    /\ now < MaxTime
    /\ now' = now + 1
    /\ UNCHANGED <<ingressVars, coordVars, unitVars,
                   metadataBytes, buf, invocations, count, age, maxSize, maxAge,
                   currentlyExecutingRequestID, coldstartDurationMs, firstAccepted, reported>>

\* calls are explored while they leave at most MaxCount events in the batch
Within == count' <= MaxCount

(***************************************************************************)
(* Spec: one invocation at a time (request A), every agent body of up to   *)
(* MaxLines event lines, within one instant of the wall clock.             *)
(***************************************************************************)
Next ==
    \/ RegisterInvocation("A", Invoke("A")[1], Invoke("A")[2], Invoke("A")[3])
    \/ \E payload \in InitPayloads : OnAgentInit("A", "t1", payload)
    \/ \E body \in Payloads, encoding \in Encodings :
           AddAgentData(APMData(body, encoding)) /\ Within
    \/ \E time \in DoneTimes :
           OnLambdaLogRuntimeDone("A", "success", time) /\ Within
    \/ OnPlatformReport("A")
    \/ \E initDurationMs \in InitDurations : OnPlatformInitReport("A", initDurationMs)
    \/ \E status \in ShutdownStatuses : OnShutdown(status) /\ Within
    \/ \E d \in LambdaInputs : AddLambdaData(d) /\ Within
    \/ ShouldShip
    \/ Reset

Spec == Init /\ [][Next]_vars

(***************************************************************************)
(* SpecShip: batches of every size limit up to MaxShipSize filling up one  *)
(* event at a time while the wall clock advances up to MaxTime.            *)
(***************************************************************************)
\* batch.go:80-87
InitShip ==
    /\ metadataBytes = 0
    /\ buf = <<>>
    /\ invocations = <<>>
    /\ count = 0
    /\ age = zeroTime
    /\ maxSize \in 1..MaxShipSize
    /\ maxAge \in {1, 2}
    /\ currentlyExecutingRequestID = ""
    /\ coldstartDurationMs = -1
    /\ now = 1
    /\ firstAccepted = [seen |-> FALSE, line |-> <<>>]
    /\ reported = {}
    /\ IngressIdle
    /\ UnitIdle
    /\ CoordinatorIdle

NextShip ==
    \/ RegisterInvocation("A", Invoke("A")[1], Invoke("A")[2], Invoke("A")[3])
    \/ AddAgentData(APMData(<<Meta1, newLineSep, AgentSpan>>, ""))
    \/ AddLambdaData(<<LambdaMetric>>)
    \/ ShouldShip
    \/ Reset
    \/ Tick

SpecShip == InitShip /\ [][NextShip]_vars

(***************************************************************************)
(* SpecRegistry: two requests, A and B, registered and announced in any    *)
(* order, the agent's transactions reported or not, and the shutdown.      *)
(***************************************************************************)
\* the transaction ids an agent announces
TxnIDs == {"t1", "t2"}

\* the agent bodies explored: metadata alone, and metadata with one of the
\* agent's transactions
RegistryBodies ==
    {<<Meta1>>, <<Meta1, newLineSep, AgentTxn>>, <<Meta1, newLineSep, AgentTxn2>>}

NextRegistry ==
    \/ \E reqID \in ReqIDs :
           RegisterInvocation(reqID, Invoke(reqID)[1], Invoke(reqID)[2], Invoke(reqID)[3])
    \/ \E reqID \in ReqIDs, txnID \in TxnIDs : OnAgentInit(reqID, txnID, <<PartialTxn>>)
    \/ \E body \in RegistryBodies : AddAgentData(APMData(body, "")) /\ Within
    \/ \E status \in ShutdownStatuses : OnShutdown(status) /\ Within
    \/ \E reqID \in ReqIDs : OnPlatformReport(reqID)
    \/ Reset

SpecRegistry == Init /\ [][NextRegistry]_vars

(***************************************************************************)
(* SpecLifecycle: the events of two requests from invoke to report, with   *)
(* runtimeDone, in any order and any number of times, and the shutdown.    *)
(***************************************************************************)
\* the agent bodies explored: metadata with the agent's transaction or with
\* a span
LifecycleBodies ==
    {<<Meta1, newLineSep, AgentTxn>>, <<Meta1, newLineSep, AgentSpan>>}

NextLifecycle ==
    \/ \E reqID \in ReqIDs :
           RegisterInvocation(reqID, Invoke(reqID)[1], Invoke(reqID)[2], Invoke(reqID)[3])
    \/ \E reqID \in ReqIDs : OnAgentInit(reqID, "t1", <<PartialTxn>>)
    \/ \E body \in LifecycleBodies : AddAgentData(APMData(body, "")) /\ Within
    \/ \E reqID \in ReqIDs, time \in DoneTimes :
           OnLambdaLogRuntimeDone(reqID, "success", time) /\ Within
    \/ \E status \in ShutdownStatuses : OnShutdown(status) /\ Within
    \/ \E reqID \in ReqIDs : OnPlatformReport(reqID)
    \/ Reset

SpecLifecycle == Init /\ [][NextLifecycle]_vars


(***************************************************************************)
(* Every call a client can make in the current state, with what it         *)
(* returns: the batch it leaves and its error.                             *)
(***************************************************************************)
AgentCalls ==
    {addAgentData(Batch, APMData(body, encoding)) :
        body \in Payloads, encoding \in Encodings}

FinalizeCalls ==
    {finalizeInvocation(Batch, reqID, status, time) :
        reqID \in ReqIDs, status \in Statuses, time \in DoneTimes}

ShutdownCalls ==
    {onShutdown(Batch, order, status) :
        order \in Orders(DOMAIN invocations), status \in ShutdownStatuses}

LambdaCalls == {addLambdaData(Batch, d) : d \in LambdaInputs}

RegistryCalls ==
    {registerInvocation(Batch, reqID, Invoke(reqID)[1], Invoke(reqID)[2], Invoke(reqID)[3]) :
        reqID \in ReqIDs}
    \cup {onAgentInit(Batch, reqID, "t1", payload) :
             reqID \in ReqIDs, payload \in InitPayloads}
    \cup {[b |-> onPlatformReport(Batch, reqID).b, err |-> onPlatformReport(Batch, reqID).err] :
             reqID \in ReqIDs}
    \cup {onPlatformInitReport(Batch, reqID, initDurationMs) :
             reqID \in ReqIDs, initDurationMs \in InitDurations}

AllCalls ==
    AgentCalls \cup FinalizeCalls \cup ShutdownCalls \cup LambdaCalls
    \cup RegistryCalls \cup {[b |-> reset(Batch), err |-> "nil"]}

\* the bytes of a byte string before its first newline
FirstLine(bytes) == Cut(bytes).before

(***************************************************************************)
(* C1  Metadata uniqueness.                                                *)
(***************************************************************************)
\* C1 as stated: once AddAgentData has accepted a payload (returned no
\* error for a non-empty request body), the bytes of the batch before the
\* first newline are the first line of the first payload accepted.
C1_FirstAcceptedLine ==
    firstAccepted.seen => FirstLine(buf) = firstAccepted.line

\* C1 as amended: the bytes of the batch before the first newline are the
\* first non-empty first line of an accepted agent payload.  The first line
\* is the metadataBytes bytes the batch cached; while no accepted payload
\* had a non-empty first line it is empty; the payload that finds it empty
\* and is accepted sets it to its own first line; once set no call of any
\* operation changes it, and no later first line is written after it.
C1_MetadataLine ==
    /\ Len(FirstLine(buf)) = metadataBytes
    /\ Len(buf) > metadataBytes => buf[metadataBytes + 1] = newLineSep
    /\ (firstAccepted.seen /\ firstAccepted.line # <<>>) => FirstLine(buf) = firstAccepted.line
    /\ metadataBytes = 0 => (buf = <<>> /\ firstAccepted.line = <<>>)
    /\ \A body \in Payloads, encoding \in Encodings :
           LET r == addAgentData(Batch, APMData(body, encoding))
           IN (metadataBytes = 0 /\ r.err = "nil" /\ FirstLine(body) # <<>>)
                  => FirstLine(r.b.buf) = FirstLine(body)
    /\ \A r \in AllCalls :
           metadataBytes # 0 =>
               /\ r.b.metadataBytes = metadataBytes
               /\ FirstLine(r.b.buf) = FirstLine(buf)
    /\ \A i \in 2..Len(buf) : buf[i].key # "metadata"

\* the batch was reset after the agent's transaction was appended and then
\* accepted a payload with a span; it starts with the first line accepted
\* first
C1_Witness ==
    /\ firstAccepted.seen /\ firstAccepted.line = <<Meta1>>
    /\ buf = <<Meta1, newLineSep, AgentSpan>>
    /\ invocations # <<>> /\ \E r \in DOMAIN invocations : invocations[r].TransactionObserved

(***************************************************************************)
(* C2  Append ordering.                                                    *)
(***************************************************************************)
IsPrefix(s, t) == Len(s) <= Len(t) /\ SubSeq(t, 1, Len(s)) = s

\* what a call appended: the bytes of t after its prefix s
Appended(s, t) == SubSeq(t, Len(s) + 1, Len(t))

\* the newline-separated lines of a byte string, in order
RECURSIVE SplitLines(_)
SplitLines(bytes) ==
    IF \A i \in DOMAIN bytes : bytes[i] # newLineSep THEN <<bytes>>
    ELSE <<Cut(bytes).before>> \o SplitLines(Cut(bytes).after)

NonEmpty(line) == line # <<>>
\* an event the lambda-span builder made, not one a client handed in
Synthesized(line) == line[1].key = "span" /\ line[1].name # ""
HandedIn(line) == line # <<>> /\ ~Synthesized(line)

\* the events of a byte string in order, each by its kind and id
Idents(lines) == [i \in DOMAIN lines |-> <<lines[i][1].key, lines[i][1].id>>]

\* agent bodies with one event line more than the calls explored carry
DrainBodies == Bodies(MaxLines + 1)

\* C2: between two resets the events of the batch are in the order they
\* were appended.  Every call other than Reset leaves the bytes of the batch
\* as a prefix of what it leaves, so an earlier event stays ahead of every
\* later one; and an accepted agent payload's events are appended after
\* them in the payload's own order, each once.
C2_AppendOrder ==
    /\ \A r \in AllCalls \ {[b |-> reset(Batch), err |-> "nil"]} : IsPrefix(buf, r.b.buf)
    /\ \A body \in DrainBodies :
           LET r == addAgentData(Batch, APMData(body, ""))
               pre == IF metadataBytes = 0 THEN FirstLine(body) ELSE buf
           IN r.err = "nil" =>
                  /\ IsPrefix(pre, r.b.buf)
                  /\ Idents(SelectSeq(SplitLines(Appended(pre, r.b.buf)), HandedIn))
                         = Idents(SelectSeq(Tail(SplitLines(body)), NonEmpty))
    /\ \A d \in LambdaInputs :
           LET r == addLambdaData(Batch, d)
           IN (r.err = "nil" /\ d # <<>>) => r.b.buf = (buf \o <<newLineSep>>) \o d

\* a span is in the batch and a payload with a transaction and then a span
\* is accepted: the three events end up in that order
C2_Witness ==
    /\ buf = <<Meta1, newLineSep, AgentSpan>>
    /\ coldstartDurationMs < 0
    /\ LET body == <<Meta2, newLineSep, AgentTxn, newLineSep, AgentSpan>>
           r == addAgentData(Batch, APMData(body, ""))
       IN r.err = "nil" /\ r.b.buf = (buf \o <<newLineSep, AgentTxn>>) \o <<newLineSep, AgentSpan>>

(***************************************************************************)
(* C3  Proxy synthesis.                                                    *)
(***************************************************************************)
\* the transaction events of a byte string
TxnCount(bytes) == Cardinality({i \in DOMAIN bytes : bytes[i].key = "transaction"})

\* every terminal status a caller may pass
TerminalStatuses == Statuses \cup ShutdownStatuses

\* the invocations whose agent announced a transaction that the agent has
\* not reported
AwaitingProxy ==
    {reqID \in DOMAIN invocations :
        invocations[reqID].AgentPayload # <<>> /\ ~invocations[reqID].TransactionObserved}

ProxyTxns(bytes) ==
    {i \in DOMAIN bytes : bytes[i].key = "transaction" /\ bytes[i].result # ""}

\* C4: OnShutdown(status), called in any reachable state, leaves the
\* registry empty and appends one proxy transaction for each invocation that
\* was in the registry and whose announced transaction the agent had not
\* reported.
C4_ShutdownComplete ==
    \A order \in Orders(DOMAIN invocations), status \in ShutdownStatuses :
        LET r == onShutdown(Batch, order, status)
        IN /\ DOMAIN r.b.invocations = {}
           /\ IsPrefix(buf, r.b.buf)
           /\ Cardinality(ProxyTxns(Appended(buf, r.b.buf))) = Cardinality(AwaitingProxy)

(***************************************************************************)
(* C5  Cold-start trio.                                                    *)
(***************************************************************************)
\* the bytes a are: init span, handle span, adjusted transaction, for a
\* transaction that had timestamp oldTs and duration oldDur and an init
\* phase of init milliseconds
IsTrio(a, oldTs, oldDur, init) ==
    /\ Len(a) = 6
    /\ a[1] = newLineSep /\ a[3] = newLineSep /\ a[5] = newLineSep
    /\ a[2].key = "span" /\ a[2].name = "AWS Lambda Initialize"
    /\ a[2].timestamp = oldTs - init * 1000 /\ a[2].duration = init
    /\ a[4].key = "span" /\ a[4].name = "AWS Lambda Handle"
    /\ a[4].timestamp = oldTs /\ a[4].duration = oldDur
    /\ a[6].key = "transaction"
    /\ a[6].timestamp = oldTs - init * 1000
    /\ a[6].duration = oldDur + init
    /\ a[6].tag = init

\* agent bodies whose only event is a transaction
TxnBodies == {(m \o <<newLineSep>>) \o <<AgentTxn>> : m \in FirstLines}

RECURSIVE Verbatim(_)
Verbatim(lines) ==
    IF lines = <<>> THEN <<>>
    ELSE (IF Head(lines) = <<>> THEN <<>> ELSE <<newLineSep>> \o Head(lines))
         \o Verbatim(Tail(lines))

\* the calls other than OnPlatformInitReport
CallsButInitReport ==
    AgentCalls \cup FinalizeCalls \cup ShutdownCalls \cup LambdaCalls
    \cup {registerInvocation(Batch, reqID, Invoke(reqID)[1], Invoke(reqID)[2], Invoke(reqID)[3]) :
             reqID \in ReqIDs}
    \cup {onAgentInit(Batch, reqID, "t1", payload) : reqID \in ReqIDs, payload \in InitPayloads}
    \cup {[b |-> onPlatformReport(Batch, reqID).b, err |-> onPlatformReport(Batch, reqID).err] :
             reqID \in ReqIDs}
    \cup {[b |-> reset(Batch), err |-> "nil"]}

\* in the current state: OnPlatformInitReport sets the duration and changes
\* nothing else; no other call sets it, a call resets it to -1 exactly when
\* it appends a transaction while it is pending; while none is pending every
\* accepted body and every proxy is appended as it is, with no span added;
\* and of two transactions in one body only the first gets the trio
CreditStep ==
    /\ coldstartDurationMs = -1 \/ coldstartDurationMs \in InitDurations
    /\ \A reqID \in ReqIDs, initDurationMs \in InitDurations :
           onPlatformInitReport(Batch, reqID, initDurationMs).b
               = [Batch EXCEPT !.coldstartDurationMs = initDurationMs]
    /\ \A r \in CallsButInitReport :
           /\ r.b.coldstartDurationMs \in {coldstartDurationMs, -1}
           /\ (coldstartDurationMs >= 0 /\ TxnCount(r.b.buf) > TxnCount(buf))
                  => r.b.coldstartDurationMs = -1
           /\ r.b.coldstartDurationMs # coldstartDurationMs
                  => TxnCount(r.b.buf) > TxnCount(buf)
    /\ coldstartDurationMs < 0 =>
           /\ \A body \in DrainBodies :
                  LET r == addAgentData(Batch, APMData(body, ""))
                      pre == IF metadataBytes = 0 THEN FirstLine(body) ELSE buf
                  IN r.err = "nil" =>
                         r.b.buf = pre \o Verbatim(Tail(SplitLines(body)))
           /\ \A reqID \in AwaitingProxy, status \in TerminalStatuses, time \in DoneTimes :
                  LET r == finalizeInvocation(Batch, reqID, status, time)
                      a == Appended(buf, r.b.buf)
                  IN r.err = "nil" =>
                         /\ Len(a) = 2 /\ a[1] = newLineSep
                         /\ a[2].key = "transaction" /\ a[2].tag = -1
                         /\ a[2].timestamp = Head(invocations[reqID].AgentPayload).timestamp
                         /\ a[2].duration = time - invocations[reqID].Timestamp
    /\ coldstartDurationMs >= 0 =>
           LET body == <<Meta1, newLineSep, AgentTxn, newLineSep, AgentTxn>>
               r == addAgentData(Batch, APMData(body, ""))
               pre == IF metadataBytes = 0 THEN FirstLine(body) ELSE buf
               a == Appended(pre, r.b.buf)
           IN r.err = "nil" =>
                  /\ Len(a) = 8
                  /\ IsTrio(SubSeq(a, 1, 6), AgentTxn.timestamp, AgentTxn.duration,
                            coldstartDurationMs)
                  /\ SubSeq(a, 7, 8) = <<newLineSep, AgentTxn>>
                  /\ r.b.coldstartDurationMs = -1

\* C6: the cold-start duration is -1 in a new batch, is set by
\* OnPlatformInitReport only and is reset to -1 by the first append of a
\* transaction that finds it pending; until another OnPlatformInitReport
\* every later transaction is appended unmodified, with no synthesized span.
C6_OneShotCredit == coldstartDurationMs = -1 /\ []CreditStep

\* the credit was consumed by the agent's transaction (its trio is in the
\* batch, nothing pending), and the proxy transaction that runtimeDone
\* appends next comes alone and unadjusted
C6_Witness ==
    /\ coldstartDurationMs = -1
    /\ Len(buf) = 7
    /\ IsTrio(SubSeq(buf, 2, 7), AgentTxn.timestamp, AgentTxn.duration, 100)
    /\ "A" \in AwaitingProxy
    /\ LET r == finalizeInvocation(Batch, "A", "success", 12)
       IN /\ r.err = "nil"
          /\ Len(r.b.buf) = 9
          /\ r.b.buf[9].key = "transaction" /\ r.b.buf[9].tag = -1
          /\ r.b.count = count + 1

(***************************************************************************)
(* C7  Full-batch refusal.                                                 *)
(***************************************************************************)
\* the events of a byte string after its first line that a client handed in
EventsOf(bytes) == Idents(SelectSeq(Tail(SplitLines(bytes)), HandedIn))

\* the content encodings the decompression accepts
AcceptedEncodings == {"", "gzip", "deflate"}

Floor90(n) == CHOOSE k \in 0..n : 10 * k <= 9 * n /\ 9 * n < 10 * (k + 1)

\* the batch has no age or is not older than maxAge
Young == age = zeroTime \/ now - age <= maxAge

\* C8: in every state ShouldShip returns true exactly when count >=
\* floor(max_size * 0.9), or the age is set and now - age > max_age; with
\* max_size = 10 it is false for a young batch of up to 8 events and true
\* from 9 events on.
C8_ShipPredicate ==
    /\ shouldShip(Batch)
           <=> (count >= Floor90(maxSize) \/ (age # zeroTime /\ now - age > maxAge))
    /\ maxSize = 10 =>
           /\ (count <= 8 /\ Young) => ~shouldShip(Batch)
           /\ count >= 9 => shouldShip(Batch)

\* a young batch of size limit 10 that has just reached 9 events is to be
\* shipped
C8_Witness ==
    /\ maxSize = 10 /\ count = 9
    /\ age # zeroTime /\ Young
    /\ shouldShip(Batch)

(***************************************************************************)
(* C9  Reset idempotence.                                                  *)
(***************************************************************************)
\* C9: Reset leaves the buffer equal to the metadata line (the first line
\* of the batch, the one cached from the agent), count = 0 and a zero age,
\* and nothing else changed; a second Reset right after it changes nothing.
C9_ResetIdempotent ==
    LET r == reset(Batch)
    IN /\ r.buf = FirstLine(buf)
       /\ Len(r.buf) = metadataBytes
       /\ firstAccepted.line # <<>> => r.buf = firstAccepted.line
       /\ r.count = 0
       /\ r.age = zeroTime
       /\ r = [Batch EXCEPT !.buf = FirstLine(buf), !.count = 0, !.age = zeroTime]
       /\ reset(r) = r

\* the batch held the agent's transaction and was reset: only the metadata
\* line is left
C9_Witness ==
    /\ buf = <<Meta1>> /\ metadataBytes = 1
    /\ count = 0 /\ age = zeroTime
    /\ "A" \in DOMAIN invocations /\ invocations["A"].TransactionObserved

(***************************************************************************)
(* C10  platform.report and runtimeDone in either order.                   *)
(***************************************************************************)
\* the invocations RegisterInvocation registered
Registered == {reqID \in DOMAIN invocations : invocations[reqID].RequestID = reqID}

\* C10 as stated: for a registered invocation, OnPlatformReport and
\* OnLambdaLogRuntimeDone complete without error in either order, both
\* orders remove the invocation from the registry, and both leave the same
\* bytes in the batch.
C10_EitherOrder ==
    \A reqID \in Registered, status \in Statuses, time \in DoneTimes :
        LET done1 == finalizeInvocation(Batch, reqID, status, time)
            report1 == onPlatformReport(done1.b, reqID)
            report2 == onPlatformReport(Batch, reqID)
            done2 == finalizeInvocation(report2.b, reqID, status, time)
        IN /\ done1.err = "nil" /\ report1.err = "nil"
           /\ report2.err = "nil" /\ done2.err = "nil"
           /\ reqID \notin DOMAIN report1.b.invocations
           /\ reqID \notin DOMAIN done2.b.invocations
           /\ report1.b.buf = done2.b.buf

\* C10 as amended: for an invocation in the registry, OnPlatformReport
\* completes without error, returns the same tuple and removes the record
\* whether it comes before or after runtimeDone (and whether or not
\* runtimeDone succeeded); runtimeDone after the report fails with the
\* unknown-request error and changes nothing, so the two orders leave the
\* same bytes exactly when runtimeDone had nothing to append, and the
\* report-first order is short of the proxy transaction otherwise.
C10_ReportTolerant ==
    \A reqID \in DOMAIN invocations, status \in Statuses, time \in DoneTimes :
        LET done1 == finalizeInvocation(Batch, reqID, status, time)
            report1 == onPlatformReport(done1.b, reqID)
            report2 == onPlatformReport(Batch, reqID)
            done2 == finalizeInvocation(report2.b, reqID, status, time)
        IN /\ report1.err = "nil" /\ report2.err = "nil"
           /\ report1.ret = report2.ret
           /\ report2.b = [Batch EXCEPT !.invocations = Remove(@, reqID)]
           /\ report1.b = [done1.b EXCEPT !.invocations = Remove(@, reqID)]
           /\ reqID \notin DOMAIN report1.b.invocations
           /\ reqID \notin DOMAIN done2.b.invocations
           /\ done2.err = "ErrUnknownRequest" /\ done2.b = report2.b
           /\ (report1.b.buf = done2.b.buf) <=> (done1.b.buf = buf)
           /\ (done1.err = "nil" /\ reqID \in AwaitingProxy)
                  => TxnCount(report1.b.buf) = TxnCount(done2.b.buf) + 1

\* platform.report was processed for the invocation before its runtimeDone:
\* the record is gone, no proxy transaction is in the batch, and runtimeDone
\* now fails and appends nothing
C10_Witness ==
    /\ "A" \in reported /\ "A" \notin DOMAIN invocations
    /\ currentlyExecutingRequestID = "A"
    /\ metadataBytes # 0 /\ ProxyTxns(buf) = {}
    /\ LET r == finalizeInvocation(Batch, "A", "success", 12)
       IN r.err = "ErrUnknownRequest" /\ r.b = Batch

(***************************************************************************)
(* C11  No proxy on the happy path.                                        *)
(***************************************************************************)
\* the invocations for which no proxy transaction is due: no agent payload
\* stored, or the agent's transaction observed
NoProxyDue ==
    {reqID \in DOMAIN invocations :
        invocations[reqID].AgentPayload = <<>> \/ invocations[reqID].TransactionObserved}

\* C11: runtimeDone for an invocation that has no agent payload, or whose
\* transaction was observed, returns no error and leaves the buffer and the
\* count (and everything but the finalized mark) as they were; the
\* platform.report that follows returns no error and removes the request
\* from the registry.
C11_NoProxyOnHappyPath ==
    \A reqID \in NoProxyDue, status \in Statuses, time \in DoneTimes :
        LET done == finalizeInvocation(Batch, reqID, status, time)
            report == onPlatformReport(done.b, reqID)
        IN /\ done.err = "nil"
           /\ done.b.buf = buf /\ done.b.count = count
           /\ done.b = [Batch EXCEPT !.invocations[reqID].Finalized = TRUE]
           /\ report.err = "nil"
           /\ reqID \notin DOMAIN report.b.invocations
           /\ report.b.buf = buf /\ report.b.count = count

\* runtimeDone has been processed (the invocation is finalized) after the
\* agent's own transaction was appended: that transaction is the only event
\* of the batch, and the report that follows empties the registry
C11_Witness ==
    /\ "A" \in DOMAIN invocations
    /\ invocations["A"].TransactionObserved /\ invocations["A"].Finalized
    /\ buf = <<Meta1, newLineSep, AgentTxn>> /\ count = 1
    /\ DOMAIN onPlatformReport(Batch, "A").b.invocations = {}

(***************************************************************************)
(* C12  Early agent-init.                                                  *)
(***************************************************************************)
\* C12: OnAgentInit for a request id that is not in the registry creates a
\* record with the given transaction id and payload and nothing else set
\* (empty function ARN), and makes the id the currently executing one;
\* RegisterInvocation for an id that is in the registry sets request id,
\* ARN, deadline and timestamp and leaves every other field of the record,
\* and every other record, as it was.
C12_EarlyAgentInit ==
    /\ \A reqID \in ReqIDs \ DOMAIN invocations, payload \in InitPayloads :
           LET r == onAgentInit(Batch, reqID, "t1", payload)
           IN isTransactionEvent(payload) =>
                  /\ r.err = "nil"
                  /\ DOMAIN r.b.invocations = DOMAIN invocations \cup {reqID}
                  /\ r.b.invocations[reqID] = [BlankInvocation EXCEPT !.TransactionID = "t1",
                                                                      !.AgentPayload = payload]
                  /\ r.b.invocations[reqID].FunctionARN = ""
                  /\ r.b.currentlyExecutingRequestID = reqID
                  /\ \A other \in DOMAIN invocations : r.b.invocations[other] = invocations[other]
    /\ \A reqID \in DOMAIN invocations :
           LET i == Invoke(reqID)
               r == registerInvocation(Batch, reqID, i[1], i[2], i[3])
           IN /\ r.err = "nil"
              /\ DOMAIN r.b.invocations = DOMAIN invocations
              /\ r.b.invocations[reqID] = [invocations[reqID] EXCEPT !.RequestID = reqID,
                                                                     !.FunctionARN = i[1],
                                                                     !.DeadlineMs = i[2],
                                                                     !.Timestamp = i[3]]
              /\ r.b.invocations[reqID].TransactionID = invocations[reqID].TransactionID
              /\ r.b.invocations[reqID].AgentPayload = invocations[reqID].AgentPayload
              /\ r.b.invocations[reqID].TransactionObserved
                     = invocations[reqID].TransactionObserved
              /\ r.b.currentlyExecutingRequestID = reqID

\* the agent announced its transaction for A before A was registered: the
\* record has the transaction id and no ARN, and registering A now fills in
\* the ARN and keeps the agent's fields
C12_Witness ==
    /\ DOMAIN invocations = {"A"}
    /\ invocations["A"] = [BlankInvocation EXCEPT !.TransactionID = "t1",
                                                  !.AgentPayload = <<PartialTxn>>]
    /\ currentlyExecutingRequestID = "A"
    /\ LET r == registerInvocation(Batch, "A", "arn", 1000, 2)
       IN /\ r.b.invocations["A"].FunctionARN = "arn"
          /\ r.b.invocations["A"].TransactionID = "t1"
          /\ r.b.invocations["A"].AgentPayload = <<PartialTxn>>

(***************************************************************************)
(* C13  Shutdown end time.                                                 *)
(***************************************************************************)
\* the proxy transactions of a byte string that end at the deadline of
\* invocation inc, under the status given at shutdown
ProxiesEndingAt(bytes, inc, status) ==
    {i \in DOMAIN bytes :
        /\ bytes[i].key = "transaction" /\ bytes[i].result = status
        /\ bytes[i].duration = inc.DeadlineMs - inc.Timestamp}

\* C13: OnShutdown(status), called in any reachable state, appends for
\* every invocation of the registry that awaits a proxy a proxy transaction
\* ending at that invocation's own deadline, and leaves the registry empty.
C13_ShutdownOwnDeadline ==
    \A order \in Orders(DOMAIN invocations), status \in ShutdownStatuses :
        LET r == onShutdown(Batch, order, status)
        IN /\ DOMAIN r.b.invocations = {}
           /\ IsPrefix(buf, r.b.buf)
           /\ \A reqID \in AwaitingProxy :
                  ProxiesEndingAt(Appended(buf, r.b.buf), invocations[reqID], status) # {}

(***************************************************************************)
(* C14  Errors during shutdown.                                            *)
(***************************************************************************)
\* the invocations OnShutdown cannot finalize: the record carries no request
\* id to look it up by, or its proxy transaction has no metadata line to
\* follow
Unfinalizable ==
    {reqID \in DOMAIN invocations :
        \/ invocations[reqID].RequestID \notin DOMAIN invocations
        \/ reqID \in AwaitingProxy /\ metadataBytes = 0}

\* the position in order of the first invocation that cannot be finalized,
\* or one past the end
FirstFailure(order) ==
    IF \E i \in DOMAIN order : order[i] \in Unfinalizable
    THEN CHOOSE i \in DOMAIN order :
             /\ order[i] \in Unfinalizable
             /\ \A j \in 1..(i - 1) : order[j] \notin Unfinalizable
    ELSE Len(order) + 1

\* C14 as stated: whatever fails, OnShutdown finalizes and removes every
\* invocation that can be finalized.
C14_AsStated ==
    \A order \in Orders(DOMAIN invocations), status \in ShutdownStatuses :
        LET r == onShutdown(Batch, order, status)
        IN \A reqID \in DOMAIN invocations \ Unfinalizable :
               reqID \notin DOMAIN r.b.invocations

\* C14: the first invocation that cannot be finalized ends OnShutdown with
\* its error; the invocations visited before it are finalized and removed,
\* each with its proxy transaction if it awaited one; the failing one and
\* those not yet visited stay in the registry as they were.
C14_FirstErrorAborts ==
    \A order \in Orders(DOMAIN invocations), status \in ShutdownStatuses :
        LET r == onShutdown(Batch, order, status)
            k == FirstFailure(order)
            visited == {order[i] : i \in 1..(k - 1)}
        IN /\ (r.err = "nil") <=> (k = Len(order) + 1)
           /\ DOMAIN r.b.invocations = DOMAIN invocations \ visited
           /\ \A reqID \in DOMAIN r.b.invocations :
                  r.b.invocations[reqID] = invocations[reqID]
           /\ IsPrefix(buf, r.b.buf)
           /\ Cardinality(ProxyTxns(Appended(buf, r.b.buf)))
                  = Cardinality(visited \cap AwaitingProxy)

\* two invocations, one that cannot be finalized and one that awaits its
\* proxy and can be: the order of the visit decides whether the second is
\* finalized
C14_Witness ==
    /\ DOMAIN invocations = ReqIDs
    /\ Unfinalizable # {} /\ AwaitingProxy \ Unfinalizable # {}
    /\ \E order \in Orders(DOMAIN invocations), status \in ShutdownStatuses :
           LET r == onShutdown(Batch, order, status)
           IN /\ r.err # "nil" /\ Cardinality(DOMAIN r.b.invocations) = 1
              /\ Cardinality(ProxyTxns(Appended(buf, r.b.buf))) = 1
    /\ \E order \in Orders(DOMAIN invocations), status \in ShutdownStatuses :
           LET r == onShutdown(Batch, order, status)
           IN r.err # "nil" /\ r.b = Batch

(***************************************************************************)
(* C15  Buffer well-formedness.                                            *)
(***************************************************************************)
\* the bytes of batch b are the metadata line, free of newlines, followed by
\* b.count segments, each a newline and one event; with nothing appended and
\* no metadata line the bytes are empty
WellFormed(b) ==
    /\ Len(b.buf) = b.metadataBytes + 2 * b.count
    /\ b.count > 0 => b.metadataBytes > 0
    /\ \A i \in 1..b.metadataBytes : b.buf[i] # newLineSep
    /\ \A j \in 1..b.count :
           /\ b.buf[b.metadataBytes + 2 * j - 1] = newLineSep
           /\ b.buf[b.metadataBytes + 2 * j] # newLineSep

ObservedHaveID(r) ==
    \A reqID \in DOMAIN r : r[reqID].TransactionObserved => r[reqID].TransactionID # ""

C20_RejectedUnchanged ==
    /\ \A body \in Payloads, encoding \in Encodings :
           LET r == addAgentData(Batch, APMData(body, encoding))
           IN /\ r.err \in {"ErrInvalidEncoding", "ErrBatchFull", "ErrLifecycle"} => r.b = Batch
              /\ (body # <<>> /\ encoding = "br") => r.err = "ErrInvalidEncoding"
              /\ (body # <<>> /\ encoding # "br" /\ count >= maxSize) => r.err = "ErrBatchFull"
              /\ (body # <<>> /\ encoding # "br" /\ count < maxSize
                     /\ currentlyExecutingRequestID = "") => r.err = "ErrLifecycle"
    /\ \A d \in LambdaInputs :
           LET r == addLambdaData(Batch, d)
           IN /\ r.err # "nil" => r.b = Batch
              /\ count >= maxSize => r.err = "ErrBatchFull"
              /\ (count < maxSize /\ d # <<>> /\ metadataBytes = 0)
                     => r.err = "ErrMetadataUnavailable"
    /\ \A reqID \in ReqIDs, txnID \in TxnIDs :
           LET r == onAgentInit(Batch, reqID, txnID, <<AgentSpan>>)
           IN r.err # "nil" /\ r.b = Batch
    /\ \A reqID \in ReqIDs \ DOMAIN invocations :
           /\ \A status \in Statuses, time \in DoneTimes :
                  LET r == finalizeInvocation(Batch, reqID, status, time)
                  IN r.err # "nil" /\ r.b = Batch
           /\ LET r == onPlatformReport(Batch, reqID)
              IN r.err # "nil" /\ r.b = Batch

\* a full batch with a request in the registry and one unknown: an agent
\* body and lambda data are refused as batch full, a body in an unknown
\* encoding as invalid, and the unknown request id by runtimeDone and report
C20_Witness ==
    /\ count >= maxSize /\ metadataBytes > 0
    /\ invocations # <<>> /\ ReqIDs \ DOMAIN invocations # {}
    /\ addAgentData(Batch, APMData(<<Meta1, newLineSep, AgentSpan>>, "")).err = "ErrBatchFull"
    /\ addAgentData(Batch, APMData(<<Meta1, newLineSep, AgentSpan>>, "br")).err = "ErrInvalidEncoding"
    /\ addLambdaData(Batch, <<LambdaMetric>>).err = "ErrBatchFull"

\* before any invocation: an agent body is refused for want of an executing
\* request and lambda data for want of a metadata line
C20_WitnessFresh ==
    /\ currentlyExecutingRequestID = "" /\ metadataBytes = 0
    /\ addAgentData(Batch, APMData(<<Meta1, newLineSep, AgentSpan>>, "")).err = "ErrLifecycle"
    /\ addLambdaData(Batch, <<LambdaMetric>>).err = "ErrMetadataUnavailable"

(***************************************************************************)
(* The agent ingress: POST /intake/v2/events                               *)
(* (route_handlers.go:83-109), one step per statement of the handler, the  *)
(* handlers of the connections interleaved.                                *)
(***************************************************************************)
\* route_handlers.go:27-30
AgentData(data, contentEncoding) == [Data |-> data, ContentEncoding |-> contentEncoding]

\* the values the query of a request gives for the key flushed
FlushedValues == {<<>>, <<"true">>, <<"false">>, <<"false", "true">>}
\* the bodies and the Content-Encoding headers of the requests explored
IntakeBodies == {<<>>, <<Meta1, newLineSep, AgentSpan>>}
IntakeEncodings == {"", "gzip"}

\* route_handlers.go:105  len(q["flushed"]) > 0 && q["flushed"][0] == "true"
flushedTrue(flushed) == Len(flushed) > 0 /\ flushed[1] = "true"

\* a variant of the handler that goes on with what it has read when the
\* read failed
afterRead_Ignore(err) == "enqueue"

\* route_handlers.go:91-94  the handler returns when the body could not be
\* read
afterRead(err) == IF err THEN "done" ELSE "enqueue"

\* a request arrives on a connection that has none in flight
Post(c, body, encoding, flushed) ==
    /\ requests[c].pc = "none"
    /\ requests' = [requests EXCEPT ![c] =
           [NoRequest EXCEPT !.pc = "start", !.body = body,
                             !.encoding = encoding, !.flushed = flushed]]
    /\ UNCHANGED <<agentDataChan, AgentDoneSignal>>

\* route_handlers.go:86-87  WriteHeader(202), Write("ok")
WriteResponse(c) ==
    /\ requests[c].pc = "start"
    /\ requests' = [requests EXCEPT ![c].pc = "read",
                                    ![c].response = [status |-> 202, body |-> "ok"],
                                    ![c].events = Append(@, "respond")]
    /\ UNCHANGED <<agentDataChan, AgentDoneSignal>>

\* route_handlers.go:89-94  ioutil.ReadAll: the whole body, or an error with
\* the bytes read before it
ReadBody(c) ==
    /\ requests[c].pc = "read"
    /\ \E err \in BOOLEAN, n \in 0..Len(requests[c].body) :
           /\ ~err => n = Len(requests[c].body)
           /\ requests' = [requests EXCEPT ![c].pc = afterRead(err),
                                           ![c].err = err,
                                           ![c].rawBytes = SubSeq(requests[c].body, 1, n),
                                           ![c].events = Append(@, "read")]
    /\ UNCHANGED <<agentDataChan, AgentDoneSignal>>

\* route_handlers.go:96-103
Enqueue(c) ==
    /\ requests[c].pc = "enqueue"
    /\ IF Len(requests[c].rawBytes) > 0
       THEN /\ agentDataChan' = Append(agentDataChan,
                                       AgentData(requests[c].rawBytes, requests[c].encoding))
            /\ requests' = [requests EXCEPT ![c].pc = "signal",
                                            ![c].events = Append(@, "enqueue")]
       ELSE /\ agentDataChan' = agentDataChan
            /\ requests' = [requests EXCEPT ![c].pc = "signal"]
    /\ UNCHANGED AgentDoneSignal

\* route_handlers.go:105-108
Signal(c) ==
    /\ requests[c].pc = "signal"
    /\ IF flushedTrue(requests[c].flushed)
       THEN /\ AgentDoneSignal' = AgentDoneSignal + 1
            /\ requests' = [requests EXCEPT ![c].pc = "done",
                                            ![c].events = Append(@, "signal")]
       ELSE /\ AgentDoneSignal' = AgentDoneSignal
            /\ requests' = [requests EXCEPT ![c].pc = "done"]
    /\ UNCHANGED agentDataChan

\* the batch and the coordinator, which the handler does not touch
IngressFrame ==
    UNCHANGED <<metadataBytes, buf, invocations, count, age, maxSize, maxAge,
                currentlyExecutingRequestID, coldstartDurationMs, now, firstAccepted,
                reported, coordVars, unitVars>>

NextIntake ==
    \/ \E c \in Connections, body \in IntakeBodies, encoding \in IntakeEncodings,
          flushed \in FlushedValues : Post(c, body, encoding, flushed) /\ IngressFrame
    \/ \E c \in Connections : WriteResponse(c) /\ IngressFrame
    \/ \E c \in Connections : ReadBody(c) /\ IngressFrame
    \/ \E c \in Connections : Enqueue(c) /\ IngressFrame
    \/ \E c \in Connections : Signal(c) /\ IngressFrame

SpecIntake == Init /\ [][NextIntake]_vars

(***************************************************************************)
(* C19  Intake handler ordering.                                           *)
(***************************************************************************)
\* the positions of event e in what the handler of a request did
Positions(r, e) == {i \in DOMAIN r.events : r.events[i] = e}

\* a handler answers first, and does each later step at most once
RespondsFirst(r) ==
    /\ r.events # <<>> => r.events[1] = "respond" /\ r.response = [status |-> 202, body |-> "ok"]
    /\ \A e \in {"respond", "read", "enqueue", "signal"} : Cardinality(Positions(r, e)) <= 1
    /\ \A i \in Positions(r, "enqueue"), j \in Positions(r, "signal") : i < j
    /\ Positions(r, "enqueue") # {} =>
           \E i \in DOMAIN agentDataChan : agentDataChan[i] = AgentData(r.rawBytes, r.encoding)

\* C19 as stated: for every request the handler answered 202 ok before
\* reading the body; and once it has returned, a non-empty body was
\* enqueued exactly once and, with flushed=true, the signal was sent
\* exactly once, after the data.
C19_AsStated ==
    \A c \in Connections :
        LET r == requests[c]
        IN /\ RespondsFirst(r)
           /\ r.pc = "done" =>
                  /\ r.body # <<>> =>
                         /\ Cardinality(Positions(r, "enqueue")) = 1
                         /\ \E i \in DOMAIN agentDataChan :
                                agentDataChan[i] = AgentData(r.body, r.encoding)
                  /\ flushedTrue(r.flushed) => Cardinality(Positions(r, "signal")) = 1

\* C19: for every request the handler writes 202 ok before it reads the
\* body.  When the body was read without error, a non-empty body is put on
\* the agent-data channel exactly once, with the Content-Encoding of the
\* request, and an empty one never; the signal is sent exactly once if the
\* first value of flushed is true and never otherwise, and after the data
\* of the request.  When the read failed the handler returns with nothing
\* enqueued and no signal sent.
C19_IntakeOrdering ==
    \A c \in Connections :
        LET r == requests[c]
        IN /\ RespondsFirst(r)
           /\ (r.pc = "done" /\ ~r.err) =>
                  /\ r.rawBytes = r.body
                  /\ Cardinality(Positions(r, "enqueue")) = IF r.body # <<>> THEN 1 ELSE 0
                  /\ Cardinality(Positions(r, "signal")) = IF flushedTrue(r.flushed) THEN 1 ELSE 0
           /\ r.err => r.pc = "done" /\ Positions(r, "enqueue") \cup Positions(r, "signal") = {}

\* both connections have returned: one sent its data and then the signal,
\* the other had flushed=true and a body that could not be read
C19_Witness ==
    /\ requests["c1"].pc = "done" /\ ~requests["c1"].err
    /\ requests["c1"].events = <<"respond", "read", "enqueue", "signal">>
    /\ requests["c2"].pc = "done" /\ requests["c2"].err
    /\ requests["c2"].body # <<>> /\ flushedTrue(requests["c2"].flushed)
    /\ requests["c2"].events = <<"respond", "read">>
    /\ Len(agentDataChan) = 1 /\ AgentDoneSignal = 1

(***************************************************************************)
(* The invocation coordinator and the flush discipline.  The Lifecycle     *)
(* Client asks for the next event ("next"), an invoke starts an invocation *)
(* ("invoked"), platform.runtimeDone ends it ("runtimeDone"), and a ship   *)
(* that succeeded after it leaves the batch "flushed".  Every step on the  *)
(* batch is a method of batch.go.                                          *)
(***************************************************************************)
\* the two send strategies, ELASTIC_APM_SEND_STRATEGY
SendStrategies == {"syncflush", "background"}

\* the Lifecycle Client may ask for the next event: under syncflush once
\* the batch was shipped and reset after runtimeDone, under background as
\* soon as runtimeDone arrived
mayAcknowledge(strategy, phase) ==
    \/ phase = "flushed"
    \/ strategy = "background" /\ phase = "runtimeDone"

\* a ship is attempted when runtimeDone arrived under syncflush, or when
\* ShouldShip says so
shipDue(b, strategy, phase) ==
    \/ strategy = "syncflush" /\ phase = "runtimeDone"
    \/ shouldShip(b)

\* a variant of the failed ship that resets the batch all the same
onShipFailure_Reset(b) == reset(b)

\* the batch after a ship attempt that failed or timed out: Reset is not
\* called
onShipFailure(b) == b

\* what is left unchanged by every step of the coordinator
CoordFrame ==
    UNCHANGED <<ingressVars, unitVars, sendStrategy, maxSize, maxAge, now, firstAccepted, reported>>

\* invoke: the invocation is registered and becomes the executing one
CoordInvoke(reqID) ==
    /\ lifecycle = "next"
    /\ Store(registerInvocation(Batch, reqID, Invoke(reqID)[1], Invoke(reqID)[2],
                                Invoke(reqID)[3]).b)
    /\ lifecycle' = "invoked"
    /\ UNCHANGED lastShip
    /\ CoordFrame

\* agent-init for the executing request
CoordAgentInit ==
    /\ lifecycle = "invoked"
    /\ Store(onAgentInit(Batch, currentlyExecutingRequestID, "t1", <<PartialTxn>>).b)
    /\ UNCHANGED <<lifecycle, lastShip>>
    /\ CoordFrame

\* agent-submit: the body goes into the batch under the executing request
CoordAgentSubmit(apmData) ==
    /\ lifecycle = "invoked"
    /\ Store(addAgentData(Batch, apmData).b)
    /\ UNCHANGED <<lifecycle, lastShip>>
    /\ CoordFrame

\* platform.runtimeDone for the executing request
CoordRuntimeDone(status, time) ==
    /\ lifecycle = "invoked"
    /\ Store(finalizeInvocation(Batch, currentlyExecutingRequestID, status, time).b)
    /\ lifecycle' = "runtimeDone"
    /\ UNCHANGED lastShip
    /\ CoordFrame

\* platform.report for a finished invocation
CoordReport(reqID) ==
    /\ lifecycle # "invoked"
    /\ reqID \in DOMAIN invocations
    /\ Store(onPlatformReport(Batch, reqID).b)
    /\ UNCHANGED <<lifecycle, lastShip>>
    /\ CoordFrame

\* a ship attempt: the snapshot is handed to the Shipper; when it succeeds
\* the batch is reset, when it fails or times out it is not
Ship(ok) ==
    /\ shipDue(Batch, sendStrategy, lifecycle)
    /\ lastShip' = [made |-> TRUE, ok |-> ok, data |-> toAPMData(Batch).Data,
                    count |-> count, age |-> age]
    /\ Store(IF ok THEN reset(Batch) ELSE onShipFailure(Batch))
    /\ lifecycle' = IF ok /\ lifecycle = "runtimeDone" THEN "flushed" ELSE lifecycle
    /\ CoordFrame

\* the Lifecycle Client asks for the next event
Acknowledge ==
    /\ lifecycle \in {"runtimeDone", "flushed"}
    /\ mayAcknowledge(sendStrategy, lifecycle)
    /\ lifecycle' = "next"
    /\ UNCHANGED <<metadataBytes, buf, invocations, count, age,
                   currentlyExecutingRequestID, coldstartDurationMs, lastShip>>
    /\ CoordFrame

\* batch.go:80-87 with room for three events, either strategy
InitFlush ==
    /\ metadataBytes = 0
    /\ buf = <<>>
    /\ invocations = <<>>
    /\ count = 0
    /\ age = zeroTime
    /\ maxSize = 3
    /\ maxAge = 1
    /\ currentlyExecutingRequestID = ""
    /\ coldstartDurationMs = -1
    /\ now = 1
    /\ firstAccepted = [seen |-> FALSE, line |-> <<>>]
    /\ reported = {}
    /\ IngressIdle
    /\ UnitIdle
    /\ sendStrategy \in SendStrategies
    /\ lifecycle = "next"
    /\ lastShip = NoShip

\* the agent bodies of the coordinator's runs
FlushBodies ==
    {<<Meta1, newLineSep, AgentSpan>>, <<Meta1, newLineSep, AgentTxn>>}

NextFlush ==
    \/ \E reqID \in ReqIDs : CoordInvoke(reqID)
    \/ CoordAgentInit
    \/ \E body \in FlushBodies : CoordAgentSubmit(APMData(body, "")) /\ Within
    \/ \E time \in DoneTimes : CoordRuntimeDone("success", time) /\ Within
    \/ \E reqID \in ReqIDs : CoordReport(reqID)
    \/ \E ok \in BOOLEAN : Ship(ok)
    \/ Acknowledge

SpecFlush == InitFlush /\ [][NextFlush]_vars

C18_FailurePreservesBatch ==
    (lastShip.made /\ ~lastShip.ok) =>
        /\ IsPrefix(lastShip.data, toAPMData(Batch).Data)
        /\ count >= lastShip.count
        /\ Len(buf) - Len(lastShip.data) = 2 * (count - lastShip.count)
        /\ lastShip.count > 0 => age = lastShip.age

\* a ship with events failed and an event was appended since: the next
\* snapshot carries the events of the failed one and the new one
C18_Witness ==
    /\ lastShip.made /\ ~lastShip.ok
    /\ lastShip.count > 0
    /\ count > lastShip.count
    /\ Len(toAPMData(Batch).Data) > Len(lastShip.data)

(***************************************************************************)
(* C21  OnPlatformReport.                                                  *)
(***************************************************************************)
\* C21: OnPlatformReport for a request id of the registry returns without
\* error the function ARN, deadline and timestamp the record holds, which
\* are those of the latest RegisterInvocation for the id, and removes that
\* record alone: every other record, the buffer, the count and the rest of
\* the batch are as before.  For an id that is not in the registry it
\* returns an error and changes nothing.
C21_PlatformReport ==
    \A reqID \in ReqIDs :
        LET r == onPlatformReport(Batch, reqID)
        IN IF reqID \in DOMAIN invocations
           THEN /\ r.err = "nil"
                /\ r.ret = <<invocations[reqID].FunctionARN, invocations[reqID].DeadlineMs,
                             invocations[reqID].Timestamp>>
                /\ reqID \in Registered => r.ret = Invoke(reqID)
                /\ DOMAIN r.b.invocations = DOMAIN invocations \ {reqID}
                /\ \A other \in DOMAIN r.b.invocations :
                       r.b.invocations[other] = invocations[other]
                /\ r.b.buf = buf /\ r.b.count = count
                /\ [r.b EXCEPT !.invocations = invocations] = Batch
           ELSE r.err # "nil" /\ r.b = Batch

\* both requests are in the registry, A registered by its invoke event, and
\* events are in the batch: the report for A returns A's tuple and leaves B
C21_Witness ==
    /\ DOMAIN invocations = ReqIDs /\ "A" \in Registered
    /\ count > 0
    /\ onPlatformReport(Batch, "A").ret = <<"arn", 1000, 2>>
    /\ DOMAIN onPlatformReport(Batch, "A").b.invocations = {"B"}

(***************************************************************************)
(* C22  Observed-transaction marking.                                      *)
(***************************************************************************)
\* the lines an agent body may carry after its first line
MarkingLines == {<<>>, <<AgentTxn>>, <<AgentTxn2>>, <<AgentTxnNoID>>, <<AgentSpan>>}

\* agent bodies of a first line and one or two further lines; the first
\* line may itself be a transaction event
MarkingBodies ==
    {(first \o <<newLineSep>>) \o l1 : first \in {<<Meta1>>, <<AgentTxn>>}, l1 \in MarkingLines}
    \cup {(((first \o <<newLineSep>>) \o l1) \o <<newLineSep>>) \o l2 :
             first \in {<<Meta1>>}, l1 \in MarkingLines, l2 \in MarkingLines}

\* the transaction ids of the transaction events on the lines of body after
\* its first line
RECURSIVE LineTxnIDs(_)
LineTxnIDs(rest) ==
    LET c == Cut(rest)
        here == IF isTransactionEvent(c.before) THEN {TxnID(c.before)} ELSE {}
    IN IF rest = <<>> THEN {} ELSE here \cup LineTxnIDs(c.after)

\* C22: AddAgentData changes no record of the registry but that of the
\* executing invocation, and of that one the TransactionObserved flag
\* alone; the flag goes from false to true only if the record has a
\* non-empty TransactionID and a line of the body after the first is a
\* transaction event with that transaction.id; and it does go to true when
\* such a body is accepted.
C22_ObservedMarking ==
    \A body \in MarkingBodies :
        LET r == addAgentData(Batch, APMData(body, ""))
            cur == currentlyExecutingRequestID
            ids == LineTxnIDs(Cut(body).after)
        IN /\ DOMAIN r.b.invocations = DOMAIN invocations
           /\ \A reqID \in DOMAIN invocations \ {cur} :
                  r.b.invocations[reqID] = invocations[reqID]
           /\ cur \in DOMAIN invocations =>
                  LET old == invocations[cur]
                      new == r.b.invocations[cur]
                  IN /\ [new EXCEPT !.TransactionObserved = old.TransactionObserved] = old
                     /\ old.TransactionObserved => new.TransactionObserved
                     /\ (new.TransactionObserved /\ ~old.TransactionObserved) =>
                            old.TransactionID # "" /\ old.TransactionID \in ids
                     /\ (r.err = "nil" /\ count < maxSize
                            /\ old.TransactionID # "" /\ old.TransactionID \in ids) =>
                            new.TransactionObserved

\* A executes and announced t1, B announced t1 as well: a body with the
\* transaction t1 marks A and leaves B; bodies with the transaction t2, a
\* transaction without id or a span mark neither
C22_Witness ==
    /\ DOMAIN invocations = ReqIDs /\ currentlyExecutingRequestID = "A"
    /\ invocations["A"].TransactionID = "t1" /\ ~invocations["A"].TransactionObserved
    /\ invocations["B"].TransactionID = "t1" /\ ~invocations["B"].TransactionObserved
    /\ LET r == addAgentData(Batch, APMData(<<Meta1, newLineSep, AgentTxn>>, ""))
       IN /\ r.err = "nil"
          /\ r.b.invocations["A"].TransactionObserved
          /\ ~r.b.invocations["B"].TransactionObserved
    /\ \A line \in {<<AgentTxn2>>, <<AgentTxnNoID>>, <<AgentSpan>>} :
           LET r == addAgentData(Batch, APMData((<<Meta1, newLineSep>>) \o line, ""))
           IN r.err = "nil" /\ ~r.b.invocations["A"].TransactionObserved

(***************************************************************************)
(* C23  Registry lifecycle frame.                                          *)
(***************************************************************************)
\* the request ids of the registry of batch b
Ids(b) == DOMAIN b.invocations

\* C23: RegisterInvocation and OnAgentInit add at most the id they are
\* given to the registry and remove none; OnPlatformReport removes at most
\* the id it is given and OnShutdown only removes; AddAgentData,
\* AddLambdaData, OnLambdaLogRuntimeDone, OnPlatformInitReport and Reset
\* leave the set of ids as it was, so an invocation that runtimeDone
\* finalized is still in the registry afterwards.
C23_RegistryFrame ==
    /\ \A reqID \in ReqIDs :
           /\ Ids(registerInvocation(Batch, reqID, Invoke(reqID)[1], Invoke(reqID)[2],
                                     Invoke(reqID)[3]).b) = Ids(Batch) \cup {reqID}
           /\ Ids(onAgentInit(Batch, reqID, "t1", <<PartialTxn>>).b) = Ids(Batch) \cup {reqID}
           /\ Ids(onAgentInit(Batch, reqID, "t1", <<AgentSpan>>).b) = Ids(Batch)
           /\ Ids(onPlatformReport(Batch, reqID).b) = Ids(Batch) \ {reqID}
           /\ \A status \in Statuses, time \in DoneTimes :
                  LET r == finalizeInvocation(Batch, reqID, status, time)
                  IN /\ Ids(r.b) = Ids(Batch)
                     /\ (r.err = "nil") => r.b.invocations[reqID].Finalized
    /\ \A order \in Orders(DOMAIN invocations), status \in ShutdownStatuses :
           Ids(onShutdown(Batch, order, status).b) \subseteq Ids(Batch)
    /\ \A body \in Payloads : Ids(addAgentData(Batch, APMData(body, "")).b) = Ids(Batch)
    /\ \A d \in LambdaInputs : Ids(addLambdaData(Batch, d).b) = Ids(Batch)
    /\ \A initDurationMs \in InitDurations, reqID \in ReqIDs :
           Ids(onPlatformInitReport(Batch, reqID, initDurationMs).b) = Ids(Batch)
    /\ Ids(reset(Batch)) = Ids(Batch)

\* runtimeDone finalized A with its proxy transaction, the batch was reset
\* since and took another event: A is still in the registry
C23_Witness ==
    /\ "A" \in DOMAIN invocations /\ invocations["A"].Finalized
    /\ invocations["A"].AgentPayload # <<>> /\ ~invocations["A"].TransactionObserved
    /\ ProxyTxns(buf) = {} /\ count > 0

(***************************************************************************)
(* C24  Shutdown abort.                                                    *)
(***************************************************************************)
\* C24: when OnShutdown has finalized and removed the first k - 1
\* invocations of its visit and finalizing the k-th fails, OnShutdown
\* returns the error of that finalize and the batch as it stood at that
\* point: the k - 1 visited invocations are gone, the failing one and the
\* ones not yet visited are in the registry as they were.
C24_ShutdownAbort ==
    \A order \in Orders(DOMAIN invocations), status \in ShutdownStatuses :
        \A k \in DOMAIN order :
            LET before == {order[i] : i \in 1..(k - 1)}
                pre == onShutdown(Batch, SubSeq(order, 1, k - 1), status)
                inc == invocations[order[k]]
                failing == finalizeInvocation(pre.b, inc.RequestID, status, inc.DeadlineMs)
                r == onShutdown(Batch, order, status)
            IN (pre.err = "nil" /\ failing.err # "nil") =>
                   /\ r.err = failing.err
                   /\ r.b = pre.b
                   /\ DOMAIN r.b.invocations = DOMAIN invocations \ before
                   /\ \A reqID \in DOMAIN invocations \ before :
                          r.b.invocations[reqID] = invocations[reqID]

\* A is registered without agent payload and B awaits a proxy transaction
\* that has no metadata line to follow: visiting A first removes A and then
\* fails on B, visiting B first fails with both still registered
C24_Witness ==
    /\ DOMAIN invocations = ReqIDs
    /\ \E status \in ShutdownStatuses :
           LET ab == onShutdown(Batch, <<"A", "B">>, status)
               ba == onShutdown(Batch, <<"B", "A">>, status)
           IN /\ ab.err = "ErrMetadataUnavailable" /\ DOMAIN ab.b.invocations = {"B"}
              /\ ba.err = "ErrMetadataUnavailable" /\ DOMAIN ba.b.invocations = ReqIDs

(***************************************************************************)
(* isTransactionEvent on lines of bytes.                                   *)
(***************************************************************************)
\* first keys an ND-JSON line may carry: the event kinds, keys that start
\* with or contain the transaction key, and keys shorter than it
LineKeys ==
    {transactionKey,
     transactionKey \o <<"s">>,
     transactionKey \o <<"_", "i", "d">>,
     <<"m", "y", "_">> \o transactionKey,
     SubSeq(transactionKey, 1, Len(transactionKey) - 1),
     <<"m","e","t","a","d","a","t","a">>,
     <<"m","e","t","r","i","c","s","e","t">>,
     <<"s","p","a","n">>,
     <<"l","o","g">>,
     <<"e","r","r","o","r">>,
     <<>>}

\* what precedes the key, the quote that opens it (or none) and what
\* follows it
LineLeads == {<<>>, <<"{">>, <<" ", "{", " ">>}
LineQuotes == {<<>>, <<"\"">>, <<"'">>}
LineRests == {<<>>, <<"\"", ":", "{", "}", "}">>, <<"'", ":", "{", "}", "}">>}

ScannedLines ==
    {((lead \o quote) \o key) \o rest :
        lead \in LineLeads, quote \in LineQuotes, key \in LineKeys, rest \in LineRests}

InitScan ==
    /\ metadataBytes = 0
    /\ buf = <<>>
    /\ invocations = <<>>
    /\ count = 0
    /\ age = zeroTime
    /\ maxSize = 2
    /\ maxAge = 1
    /\ currentlyExecutingRequestID = ""
    /\ coldstartDurationMs = -1
    /\ now = 1
    /\ firstAccepted = [seen |-> FALSE, line |-> <<>>]
    /\ reported = {}
    /\ IngressIdle
    /\ CoordinatorIdle
    /\ scanned \in ScannedLines
    /\ verdict = NoVerdict
    /\ LockIdle
    /\ ShipperIdle
    /\ held = NoSlice

\* isTransactionEvent(scanned)
Scan ==
    /\ ~verdict.returned
    /\ verdict' = [returned |-> TRUE, value |-> isTransactionText(scanned)]
    /\ UNCHANGED <<metadataBytes, buf, invocations, count, age, maxSize, maxAge,
                   currentlyExecutingRequestID, coldstartDurationMs, now,
                   firstAccepted, reported, ingressVars, coordVars, scanned, mu, stacks,
                   shipper, held>>

NextScan == Scan

SpecScan == InitScan /\ [][NextScan]_vars

(***************************************************************************)
(* C25  Event-kind discriminator.                                          *)
(***************************************************************************)
\* the positions of the quotes of text
QuotesOf(text) == {i \in 1..Len(text) : text[i] \in {"\"", "'"}}

\* the bytes of text after its first quote; none when it has no quote
AfterFirstQuote(text) ==
    IF QuotesOf(text) = {} THEN <<>>
    ELSE SubSeq(text, (CHOOSE i \in QuotesOf(text) : \A j \in QuotesOf(text) : i <= j) + 1,
                Len(text))

\* the first quoted key of text: the bytes between its first quote and the
\* next one; whether text has one
HasFirstKey(text) == Cardinality(QuotesOf(text)) >= 2
FirstKey(text) ==
    LET rest == AfterFirstQuote(text)
    IN SubSeq(rest, 1, (CHOOSE i \in QuotesOf(rest) : \A j \in QuotesOf(rest) : i <= j) - 1)

\* C25 as stated: isTransactionEvent returns true exactly when the first
\* quoted key of the line is transaction.
C25_AsStated ==
    verdict.returned =>
        (verdict.value <=> (HasFirstKey(scanned) /\ FirstKey(scanned) = transactionKey))

\* C25: isTransactionEvent returns true exactly when the bytes after the
\* first quote of the line begin with transaction: true for the key
\* transaction and for every longer key that starts with it, with or
\* without a closing quote; false for every first key that does not start
\* with it, for a line without a quote and for fewer bytes after the first
\* quote than transaction has.
C25_Discriminator ==
    verdict.returned =>
        /\ verdict.value <=> IsPrefix(transactionKey, AfterFirstQuote(scanned))
        /\ (HasFirstKey(scanned) /\ FirstKey(scanned) = transactionKey) => verdict.value
        /\ (HasFirstKey(scanned) /\ ~IsPrefix(transactionKey, FirstKey(scanned)))
               => ~verdict.value
        /\ QuotesOf(scanned) = {} => ~verdict.value
        /\ Len(AfterFirstQuote(scanned)) < Len(transactionKey) => ~verdict.value

\* the line {"transactions":{}} was classified as a transaction
C25_Witness ==
    /\ verdict.returned /\ verdict.value
    /\ HasFirstKey(scanned) /\ FirstKey(scanned) = transactionKey \o <<"s">>

(***************************************************************************)
(* The lock of the batch: which functions take it, and which functions     *)
(* each one calls while it runs.                                           *)
(***************************************************************************)
\* batch.go:91, 255, 266, 282  b.mu.RLock()
Readers == {"Size", "Count", "ShouldShip", "ToAPMData"}

\* batch.go:103, 126, 153, 195, 205, 216, 226, 245, 274  b.mu.Lock()
Writers == {"RegisterInvocation", "OnAgentInit", "AddAgentData", "OnLambdaLogRuntimeDone",
            "OnPlatformReport", "OnPlatformInitReport", "OnShutdown", "AddLambdaData",
            "Reset"}

\* batch.go:289, 306, 335  the methods that take no lock
Private == {"finalizeInvocation", "addData", "modelInitPhase"}

PublicOps == Readers \cup Writers

\* a variant in which addData takes the writer lock itself
Locking_AddData(fn) ==
    IF fn \in Readers THEN "RLock"
    ELSE IF fn \in Writers \cup {"addData"} THEN "Lock"
    ELSE ""

\* the lock call at the head of a function, "" for none
Locking(fn) ==
    IF fn \in Readers THEN "RLock"
    ELSE IF fn \in Writers THEN "Lock"
    ELSE ""

\* batch.go:123-125, 145-151  the functions that may return before they
\* reach their lock call
ReturnsBeforeLock == {"OnAgentInit", "AddAgentData"}

Callee(fn, isTx) == [fn |-> fn, isTx |-> isTx]

\* every sequence of at most n members of S
RECURSIVE SeqsUpTo(_, _)
SeqsUpTo(S, n) ==
    IF n = 0 THEN {<<>>}
    ELSE SeqsUpTo(S, n - 1) \cup {Append(q, x) : q \in SeqsUpTo(S, n - 1), x \in S}

\* the calls into the batch that one run of a function may make, in order;
\* which of them it makes depends on its arguments and on the batch
CallLists(fn, isTx) ==
    CASE fn = "AddAgentData" ->
             \* batch.go:172-187  one addData per line, until one fails
             SeqsUpTo({Callee("addData", TRUE), Callee("addData", FALSE)}, MaxLoop)
      [] fn = "AddLambdaData" ->
             \* batch.go:247-250
             {<<>>, <<Callee("addData", FALSE)>>}
      [] fn = "OnLambdaLogRuntimeDone" ->
             \* batch.go:197
             {<<Callee("finalizeInvocation", FALSE)>>}
      [] fn = "OnShutdown" ->
             \* batch.go:228-238  one finalizeInvocation per record, until one fails
             SeqsUpTo({Callee("finalizeInvocation", FALSE)}, MaxLoop)
      [] fn = "finalizeInvocation" ->
             \* batch.go:290-298
             {<<>>, <<Callee("addData", TRUE)>>}
      [] fn = "addData" ->
             \* batch.go:307-314
             IF isTx THEN {<<>>, <<Callee("modelInitPhase", FALSE)>>} ELSE {<<>>}
      [] fn = "modelInitPhase" ->
             \* batch.go:337-375
             {<<>>, <<Callee("addData", FALSE)>>,
              <<Callee("addData", FALSE), Callee("addData", FALSE)>>}
      [] OTHER -> {<<>>}

\* a function a goroutine is in: its calls (chosen when it passes its lock
\* call), the next of them to make (0 before the lock call), and whether it
\* took the lock
Frame(callee) ==
    [fn |-> callee.fn, isTx |-> callee.isTx, calls |-> <<>>, next |-> 0, holds |-> FALSE]

Top(g) == stacks[g][Len(stacks[g])]
SetTop(g, frame) == [stacks EXCEPT ![g] = [@ EXCEPT ![Len(@)] = frame]]
Pop(g) == [stacks EXCEPT ![g] = SubSeq(@, 1, Len(@) - 1)]

\* the goroutines that hold the lock, as writer or as reader
Holders == (IF mu.writer = "" THEN {} ELSE {mu.writer}) \cup mu.readers

\* a variant in which a lock call never waits
MayAcquire_NoWait(kind) == kind \in {"Lock", "RLock"}

\* sync.RWMutex: Lock waits for the writer and every reader to leave, RLock
\* for the writer; neither knows who asks
MayAcquire(kind) ==
    IF kind = "Lock" THEN mu = Unlocked ELSE mu.writer = ""

Acquired(g, kind) ==
    IF kind = "Lock" THEN [mu EXCEPT !.writer = g]
    ELSE [mu EXCEPT !.readers = @ \cup {g}]

Released(g, kind) ==
    IF kind = "Lock" THEN [mu EXCEPT !.writer = ""]
    ELSE [mu EXCEPT !.readers = @ \ {g}]

LockFrame ==
    UNCHANGED <<metadataBytes, buf, invocations, count, age, maxSize, maxAge,
                currentlyExecutingRequestID, coldstartDurationMs, now, firstAccepted,
                reported, ingressVars, coordVars, scanned, verdict, shipper, held>>

\* a goroutine calls a public method of the batch
Call(g, op) ==
    /\ stacks[g] = <<>>
    /\ stacks' = [stacks EXCEPT ![g] = <<Frame(Callee(op, FALSE))>>]
    /\ UNCHANGED mu

\* the function returns before its lock call
ReturnEarly(g) ==
    /\ stacks[g] # <<>> /\ Top(g).next = 0
    /\ Top(g).fn \in ReturnsBeforeLock
    /\ stacks' = Pop(g)
    /\ UNCHANGED mu

\* the function passes its lock call, if it has one, and goes on
Enter(g) ==
    /\ stacks[g] # <<>> /\ Top(g).next = 0
    /\ LET kind == Locking(Top(g).fn)
       IN \E calls \in CallLists(Top(g).fn, Top(g).isTx) :
              IF kind = ""
              THEN /\ stacks' = SetTop(g, [Top(g) EXCEPT !.calls = calls, !.next = 1])
                   /\ UNCHANGED mu
              ELSE /\ MayAcquire(kind)
                   /\ mu' = Acquired(g, kind)
                   /\ stacks' = SetTop(g, [Top(g) EXCEPT !.calls = calls, !.next = 1,
                                                         !.holds = TRUE])

\* the function makes its next call
CallInner(g) ==
    /\ stacks[g] # <<>> /\ Top(g).next \in 1..Len(Top(g).calls)
    /\ stacks' = [stacks EXCEPT ![g] =
                      Append([@ EXCEPT ![Len(@)].next = @ + 1],
                             Frame(Top(g).calls[Top(g).next]))]
    /\ UNCHANGED mu

\* the function returns; the deferred unlock runs if it took the lock
Return(g) ==
    /\ stacks[g] # <<>> /\ Top(g).next = Len(Top(g).calls) + 1
    /\ stacks' = Pop(g)
    /\ mu' = IF Top(g).holds THEN Released(g, Locking(Top(g).fn)) ELSE mu

NextLock ==
    \/ \E g \in Goroutines, op \in PublicOps : Call(g, op) /\ LockFrame
    \/ \E g \in Goroutines : ReturnEarly(g) /\ LockFrame
    \/ \E g \in Goroutines : Enter(g) /\ LockFrame
    \/ \E g \in Goroutines : CallInner(g) /\ LockFrame
    \/ \E g \in Goroutines : Return(g) /\ LockFrame

SpecLock == Init /\ [][NextLock]_vars

(***************************************************************************)
(* C26  No nested locking.                                                 *)
(***************************************************************************)
\* goroutine g stands before a lock call
AtLockCall(g) ==
    stacks[g] # <<>> /\ Top(g).next = 0 /\ Locking(Top(g).fn) # ""

\* goroutine g is inside the batch and has a step to take
CanStep(g) ==
    /\ stacks[g] # <<>>
    /\ \/ Top(g).next >= 1
       \/ Top(g).fn \in ReturnsBeforeLock
       \/ Locking(Top(g).fn) = ""
       \/ MayAcquire(Locking(Top(g).fn))

\* C26: no goroutine stands before a lock call of the batch while it holds
\* the lock: every function called from inside a public method is one of
\* the private ones, which take no lock; a goroutine that has returned from
\* its call holds nothing; the goroutine that holds the lock always has a
\* step to take, so whenever some goroutine is inside the batch one of
\* them can go on.
C26_NoNestedLocking ==
    /\ \A g \in Goroutines : AtLockCall(g) => g \notin Holders
    /\ \A g \in Goroutines : \A i \in 2..Len(stacks[g]) : stacks[g][i].fn \in Private
    /\ \A g \in Goroutines : stacks[g] = <<>> => g \notin Holders
    /\ \A g \in Holders : CanStep(g)
    /\ (\E g \in Goroutines : stacks[g] # <<>>) => (\E g \in Goroutines : CanStep(g))

\* g1 holds the writer lock in AddAgentData and is in the addData that
\* modelInitPhase calls for a synthesized span, while g2 waits at the lock
\* call of AddLambdaData
C26_Witness ==
    /\ Len(stacks["g1"]) = 4
    /\ stacks["g1"][1].fn = "AddAgentData" /\ stacks["g1"][1].holds
    /\ stacks["g1"][3].fn = "modelInitPhase" /\ stacks["g1"][4].fn = "addData"
    /\ mu.writer = "g1"
    /\ AtLockCall("g2") /\ Top("g2").fn = "AddLambdaData"

(***************************************************************************)
(* SpecAge: appends of every kind, the first of them with or without a     *)
(* cold start pending, and resets, while the wall clock advances.          *)
(***************************************************************************)
AgeBodies ==
    {<<Meta1>>, <<Meta1, newLineSep, AgentTxn>>, <<Meta1, newLineSep, AgentSpan>>}

NextAge ==
    \/ RegisterInvocation("A", Invoke("A")[1], Invoke("A")[2], Invoke("A")[3])
    \/ \E initDurationMs \in InitDurations : OnPlatformInitReport("A", initDurationMs)
    \/ \E body \in AgeBodies : AddAgentData(APMData(body, "")) /\ Within
    \/ \E d \in LambdaInputs : AddLambdaData(d) /\ Within
    \/ Reset
    \/ Tick

SpecAge == Init /\ [][NextAge]_vars

(***************************************************************************)
(* C27  Age/count coupling.                                                *)
(***************************************************************************)
\* what the appending calls return on the batch as it stands
AppendingCalls ==
    {addAgentData(Batch, APMData(body, "")) : body \in AgeBodies}
        \cup {addLambdaData(Batch, d) : d \in LambdaInputs}
        \cup {addData(Batch, data, isTx) :
                  data \in {<<>>, <<AgentSpan>>, <<AgentTxn>>}, isTx \in BOOLEAN}

\* C27: the age is the zero time exactly when the count is 0; an append to
\* an empty batch sets the age to the time of that append, also when the
\* first event written is a synthesized init span; an append to a batch
\* that holds events leaves the age as it was; Reset zeroes both; an append
\* of no bytes changes nothing.
C27_AgeCountCoupling ==
    /\ (age = zeroTime) <=> (count = 0)
    /\ \A r \in AppendingCalls :
           /\ (r.b.age = zeroTime) <=> (r.b.count = 0)
           /\ (count = 0 /\ r.b.count > 0) => r.b.age = now
           /\ count > 0 => r.b.age = age
           /\ r.b.count = count => r.b.age = age
    /\ reset(Batch).age = zeroTime /\ reset(Batch).count = 0
    /\ \A isTx \in BOOLEAN : addData(Batch, <<>>, isTx) = [b |-> Batch, err |-> "nil"]
    /\ addLambdaData(Batch, <<>>).b = Batch

\* the batch was stamped at an earlier instant and has taken events since;
\* another append, with an init span due, would leave the stamp alone
C27_Witness ==
    /\ count >= 2 /\ age # zeroTime /\ age < now
    /\ coldstartDurationMs >= 0
    /\ \E r \in AppendingCalls : r.b.count > count /\ r.b.age = age

\* an empty batch whose first append is a transaction with the cold start
\* pending: the synthesized init span is the first event and the age is set
C27_WitnessInitSpan ==
    /\ count = 0 /\ age = zeroTime /\ now > 1 /\ coldstartDurationMs >= 0
    /\ \E r \in AppendingCalls : r.b.count = 3 /\ r.b.age = now

(***************************************************************************)
(* SpecSnapshot: a shipper that takes the snapshot with ToAPMData, sends   *)
(* it, and resets the batch with Reset, each call under its own lock,      *)
(* while agent data and lambda data are appended between the calls.        *)
(***************************************************************************)
SnapshotFrame ==
    UNCHANGED <<maxSize, maxAge, now, firstAccepted, reported, ingressVars, coordVars,
                scanned, verdict, mu, stacks, held>>

\* batch.go:281-287  the shipper calls ToAPMData
Snapshot ==
    /\ shipper.at = "idle"
    /\ shipper' = [shipper EXCEPT !.at = "snapshot", !.data = toAPMData(Batch).Data]
    /\ UNCHANGED <<metadataBytes, buf, invocations, count, age,
                   currentlyExecutingRequestID, coldstartDurationMs>>
    /\ SnapshotFrame

\* batch.go:273-278  the shipper, having sent the bytes it holds, calls
\* Reset
ResetAfterSend ==
    /\ shipper.at = "snapshot"
    /\ shipper' = [shipper EXCEPT !.at = "idle", !.truncated = buf]
    /\ Store(reset(Batch))
    /\ SnapshotFrame

NextSnapshot ==
    \/ RegisterInvocation("A", Invoke("A")[1], Invoke("A")[2], Invoke("A")[3])
    \/ AddAgentData(APMData(<<Meta1, newLineSep, AgentSpan>>, "")) /\ Within
    \/ AddLambdaData(<<LambdaMetric>>) /\ Within
    \/ Snapshot
    \/ ResetAfterSend

SpecSnapshot == Init /\ [][NextSnapshot]_vars

(***************************************************************************)
(* C29  Nothing lost between snapshot and reset.                           *)
(***************************************************************************)
\* C29 as stated: the bytes a Reset of the shipper cut from the buffer are
\* bytes the shipper's ToAPMData had returned to it: every event in them
\* is in that snapshot.
C29_NothingLost ==
    IsPrefix(shipper.truncated, shipper.data)

(***************************************************************************)
(* C30  The executing request id and the registry.                         *)
(***************************************************************************)
\* C30 as stated: the executing request id is empty or names a record of
\* the registry.
C30_AsStated ==
    currentlyExecutingRequestID = "" \/ currentlyExecutingRequestID \in DOMAIN invocations

\* C30: RegisterInvocation and an accepted OnAgentInit set the executing
\* request id to the id of a record they leave in the registry;
\* OnPlatformReport and OnShutdown remove records and leave the executing
\* request id as it was, so it may name a record that is gone; while it
\* does, AddAgentData of a body it would otherwise drain returns the
\* missing-invocation error and leaves the batch unchanged.
C30_CurrentRequest ==
    /\ \A reqID \in ReqIDs :
           LET r == registerInvocation(Batch, reqID, Invoke(reqID)[1], Invoke(reqID)[2],
                                       Invoke(reqID)[3])
               a == onAgentInit(Batch, reqID, "t1", <<PartialTxn>>)
               p == onPlatformReport(Batch, reqID)
           IN /\ r.b.currentlyExecutingRequestID = reqID /\ reqID \in DOMAIN r.b.invocations
              /\ a.b.currentlyExecutingRequestID = reqID /\ reqID \in DOMAIN a.b.invocations
              /\ p.b.currentlyExecutingRequestID = currentlyExecutingRequestID
    /\ \A order \in Orders(DOMAIN invocations), status \in ShutdownStatuses :
           onShutdown(Batch, order, status).b.currentlyExecutingRequestID
               = currentlyExecutingRequestID
    /\ (currentlyExecutingRequestID # "" /\ ~C30_AsStated /\ count < maxSize) =>
           \A body \in RegistryBodies :
               addAgentData(Batch, APMData(body, ""))
                   = [b |-> Batch, err |-> "ErrNoInvocation"]

\* platform.report removed the record of A while A is the executing
\* request and B is still registered: the agent data of A is now refused
C30_Witness ==
    /\ currentlyExecutingRequestID = "A" /\ DOMAIN invocations = {"B"}
    /\ count < maxSize
    /\ \E body \in RegistryBodies :
           addAgentData(Batch, APMData(body, "")).err = "ErrNoInvocation"

(***************************************************************************)
(* SpecAlias: the slice ToAPMData returns shares the array of the buffer   *)
(* (bytes.Buffer.Bytes); Reset truncates the buffer without touching the   *)
(* array, and a later write goes into the same array unless the buffer has *)
(* to grow past what the array holds.                                      *)
(***************************************************************************)
\* what a slice reads as once newBuf has been written from the start of the
\* array it shares
Overlay(slice, newBuf) ==
    [i \in 1..Len(slice) |-> IF i <= Len(newBuf) THEN newBuf[i] ELSE slice[i]]

\* the slice after a write that left newBuf in the buffer; moved: the
\* buffer had to grow and took a new array
AfterWrite(h, newBuf, moved) ==
    IF moved
    THEN [h EXCEPT !.shared = FALSE, !.extent = Len(newBuf)]
    ELSE [h EXCEPT !.reads = IF h.taken /\ h.shared THEN Overlay(@, newBuf) ELSE @,
                   !.extent = IF Len(newBuf) > @ THEN Len(newBuf) ELSE @]

\* a write may move the buffer to a new array only when it grows past the
\* bytes the array is known to hold
MayMove(h, newBuf) == {FALSE} \cup (IF Len(newBuf) > h.extent THEN {TRUE} ELSE {})

AliasFrame ==
    UNCHANGED <<maxSize, maxAge, now, firstAccepted, reported, ingressVars, coordVars,
                scanned, verdict, mu, stacks, shipper>>

\* batch.go:281-287  ToAPMData returns b.buf.Bytes()
TakeSlice ==
    /\ held' = [taken |-> TRUE, original |-> toAPMData(Batch).Data,
                reads |-> toAPMData(Batch).Data, shared |-> TRUE, extent |-> held.extent]
    /\ UNCHANGED <<metadataBytes, buf, invocations, count, age,
                   currentlyExecutingRequestID, coldstartDurationMs>>
    /\ AliasFrame

\* batch.go:144-189  AddAgentData writing into the buffer
WriteAgentData(body) ==
    LET r == addAgentData(Batch, APMData(body, ""))
    IN /\ Store(r.b)
       /\ \E moved \in MayMove(held, r.b.buf) : held' = AfterWrite(held, r.b.buf, moved)
       /\ AliasFrame

\* batch.go:244-251  AddLambdaData writing into the buffer
WriteLambdaData(d) ==
    LET r == addLambdaData(Batch, d)
    IN /\ Store(r.b)
       /\ \E moved \in MayMove(held, r.b.buf) : held' = AfterWrite(held, r.b.buf, moved)
       /\ AliasFrame

NextAlias ==
    \/ RegisterInvocation("A", Invoke("A")[1], Invoke("A")[2], Invoke("A")[3])
    \/ WriteAgentData(<<Meta1, newLineSep, AgentSpan>>) /\ Within
    \/ WriteLambdaData(<<LambdaMetric>>) /\ Within
    \/ TakeSlice
    \/ Reset

SpecAlias == Init /\ [][NextAlias]_vars

(***************************************************************************)
(* C31  Snapshot stability.                                                *)
(***************************************************************************)
\* C31 as stated: the bytes ToAPMData returned read the same as when they
\* were returned, whatever Reset and appends have run since.
C31_SnapshotStable ==
    held.taken => held.reads = held.original

(***************************************************************************)
(* SpecDrain: AddAgentData line by line under the lock of the batch, two   *)
(* goroutines draining agent bodies while lambda data, runtimeDone and the *)
(* shutdown ask for the same lock.                                         *)
(***************************************************************************)
\* batch.go:172-187  one turn of the drain loop: the batch it leaves, the
\* error of addData, the bytes still to drain, and whether the loop goes on
drainStep(b, rest) ==
    LET c == Cut(rest)
        data == c.before
        isTx == isTransactionEvent(data)
        cur == b.currentlyExecutingRequestID
        inc == b.invocations[cur]
        b1 == IF /\ NeedProxyTransaction(inc) /\ isTx
                 /\ TxnID(data) # "" /\ inc.TransactionID = TxnID(data)
              THEN [b EXCEPT !.invocations[cur].TransactionObserved = TRUE]
              ELSE b
        r == addData(b1, data, isTx)
    IN [b |-> r.b, err |-> r.err, after |-> c.after,
        more |-> r.err = "nil" /\ Len(c.after) # 0]

LockedBodies ==
    {<<Meta1, newLineSep, AgentTxn, newLineSep, AgentSpan>>,
     <<Meta1, newLineSep, AgentSpan, newLineSep, AgentSpan>>,
     <<newLineSep, AgentSpan, newLineSep, AgentSpan>>}

DrainFrame ==
    UNCHANGED <<maxSize, maxAge, now, firstAccepted, reported, ingressVars, coordVars,
                scanned, verdict, shipper, held>>

\* batch.go:153-171  AddAgentData takes the lock, passes its checks and
\* writes the metadata line if none is cached
DrainLock(g, body) ==
    /\ stacks[g] = <<>>
    /\ MayAcquire("Lock")
    /\ count < maxSize
    /\ currentlyExecutingRequestID \in DOMAIN invocations
    /\ LET c == Cut(body)
       IN /\ stacks' = [stacks EXCEPT ![g] =
                            <<[fn |-> "AddAgentData", entry |-> Batch,
                               apmData |-> APMData(body, ""), after |-> c.after,
                               pc |-> "loop", err |-> "nil"]>>]
          /\ Store(IF metadataBytes = 0
                   THEN [Batch EXCEPT !.buf = @ \o c.before, !.metadataBytes = Len(c.before)]
                   ELSE Batch)
    /\ mu' = Acquired(g, "Lock")
    /\ DrainFrame

\* batch.go:172-187  one line of the body
DrainLine(g) ==
    /\ stacks[g] # <<>> /\ stacks[g][1].pc = "loop"
    /\ LET s == drainStep(Batch, stacks[g][1].after)
       IN /\ Store(s.b)
          /\ stacks' = [stacks EXCEPT ![g][1].after = s.after,
                                      ![g][1].err = s.err,
                                      ![g][1].pc = IF s.more THEN "loop" ELSE "return"]
    /\ UNCHANGED mu
    /\ DrainFrame

\* batch.go:154, 182, 188  AddAgentData returns and the deferred unlock runs
DrainReturn(g) ==
    /\ stacks[g] # <<>> /\ stacks[g][1].pc = "return"
    /\ stacks' = [stacks EXCEPT ![g] = <<>>]
    /\ mu' = Released(g, "Lock")
    /\ UNCHANGED <<metadataBytes, buf, invocations, count, age,
                   currentlyExecutingRequestID, coldstartDurationMs>>
    /\ DrainFrame

NextDrain ==
    \/ MayAcquire("Lock") /\ RegisterInvocation("A", Invoke("A")[1], Invoke("A")[2],
                                                Invoke("A")[3])
    \/ MayAcquire("Lock") /\ OnAgentInit("A", "t1", <<PartialTxn>>)
    \/ MayAcquire("Lock") /\ \E initDurationMs \in InitDurations :
                                 OnPlatformInitReport("A", initDurationMs)
    \/ MayAcquire("Lock") /\ AddLambdaData(<<LambdaMetric>>) /\ Within
    \/ MayAcquire("Lock") /\ OnLambdaLogRuntimeDone("A", "success", 12) /\ Within
    \/ MayAcquire("Lock") /\ \E status \in ShutdownStatuses : OnShutdown(status) /\ Within
    \/ MayAcquire("Lock") /\ Reset
    \/ \E g \in Goroutines, body \in LockedBodies : DrainLock(g, body)
    \/ \E g \in Goroutines : DrainLine(g)
    \/ \E g \in Goroutines : DrainReturn(g)

SpecDrain == Init /\ [][NextDrain]_vars

(***************************************************************************)
(* C32  Drain atomicity.                                                   *)
(***************************************************************************)
\* the goroutines inside AddAgentData
Draining == {g \in Goroutines : stacks[g] # <<>>}

\* C32: while a goroutine is inside AddAgentData it is the only one there
\* and it holds the lock; the buffer is what it was when the lock was taken
\* followed by events of this payload alone, in order, with the init and
\* handle spans synthesized for its transaction: a prefix of what the whole
\* drain leaves, and at the return exactly that.  No event of another
\* caller stands in between.
C32_DrainAtomicity ==
    /\ Cardinality(Draining) <= 1
    /\ \A g \in Draining :
           LET frame == stacks[g][1]
               whole == addAgentData(frame.entry, frame.apmData)
           IN /\ mu.writer = g
              /\ IsPrefix(frame.entry.buf, buf)
              /\ IsPrefix(buf, whole.b.buf)
              /\ frame.pc = "return" =>
                     /\ Batch = whole.b
                     /\ frame.err = whole.err

\* g1 is in the middle of a body whose transaction brought the init and
\* handle spans with it, one line still to drain, after a lambda metric of
\* another caller; g2 is outside and the lock is taken
C32_Witness ==
    /\ Draining = {"g1"} /\ stacks["g1"][1].pc = "loop"
    /\ stacks["g1"][1].after # <<>>
    /\ stacks["g1"][1].entry.count >= 1
    /\ count >= stacks["g1"][1].entry.count + 3
    /\ ~MayAcquire("Lock")

(***************************************************************************)
(* SpecColdStart: init durations and transactions of several sizes, the    *)
(* first transaction after an init report taking the init and handle spans *)
(* with it.                                                                *)
(***************************************************************************)
\* init durations in whole milliseconds: none, a usual one, and the two odd
\* ones on either side of the last that float32 multiplies by 1000 exactly
ColdStarts == {0, 100, 134217, 134219}

\* transactions by start (microseconds) and duration (whole milliseconds),
\* the longest one short of 2^24 ms
ColdTxns ==
    {Event("transaction", "t1", timestamp, duration, "", "", -1, "") :
        timestamp \in {5000, 200000000}, duration \in {0, 2, 16777215}}

NextColdStart ==
    \/ RegisterInvocation("A", Invoke("A")[1], Invoke("A")[2], Invoke("A")[3])
    \/ \E initDurationMs \in ColdStarts : OnPlatformInitReport("A", initDurationMs)
    \/ \E tx \in ColdTxns :
           AddAgentData(APMData(<<Meta1, newLineSep, tx>>, "")) /\ Within
    \/ Reset

SpecColdStart == Init /\ [][NextColdStart]_vars

(***************************************************************************)
(* C33  Cold-start time conservation.                                      *)
(***************************************************************************)
\* the init span, the handle span and the adjusted transaction that the
\* append of transaction tx adds to the batch while a cold start is pending
ColdStartTrio(tx) ==
    LET new == Appended(buf, addData(Batch, <<tx>>, TRUE).b.buf)
    IN [init |-> new[2], handle |-> new[4], txn |-> new[6]]

\* the transaction ends when it ended before the adjustment
EndKept(tx, trio) ==
    (trio.txn.duration - tx.duration) * 1000 = tx.timestamp - trio.txn.timestamp

\* the init span ends where the handle span starts
SpansMeet(trio) ==
    trio.init.timestamp + trio.init.duration * 1000 = trio.handle.timestamp

\* the two spans cover the adjusted transaction from its start to its end
SpansCover(trio) ==
    /\ trio.init.timestamp = trio.txn.timestamp
    /\ (trio.txn.duration - trio.handle.duration) * 1000
           = trio.handle.timestamp - trio.txn.timestamp

\* float32 holds init_ms * 1000 and duration + init_ms exactly
ExactInFloat32(tx, initDurationMs) ==
    /\ Float32(initDurationMs * 1000) = initDurationMs * 1000
    /\ Float32(tx.duration + initDurationMs) = tx.duration + initDurationMs

\* a cold start is pending and a transaction can be appended
ColdStartPending == metadataBytes # 0 /\ coldstartDurationMs >= 0

====
